---------------------------- MODULE Spec2Model ----------------------------
(***************************************************************************)
(* Model of the risk-and-peer analysis server (src/server/storage.ts):     *)
(* the regression helper calculateFinancialMetrics, the date alignment of  *)
(* a price history against the benchmark, the currency normalisation of    *)
(* the snapshot fields, peer discovery (getPeers) and the POST handler of  *)
(* registerRoutes.                                                         *)
(*                                                                         *)
(* JavaScript numbers are modelled as exact rationals extended with the    *)
(* non-finite values NaN, +Infinity and -Infinity, so that a division by   *)
(* a zero price behaves as it does in the code.  Rounding of IEEE-754      *)
(* doubles is not modelled.  Math.sqrt is modelled exactly: a root is kept *)
(* as a sign and the number under the root.                                *)
(*                                                                         *)
(* A value that may be null/undefined is a sequence of length 0 (absent)   *)
(* or 1 (present).                                                         *)
(***************************************************************************)
EXTENDS Integers, Sequences, FiniteSets, TLC

VARIABLES
    pc,           \* position of the handler (or of a function harness)
    req,          \* the parsed request body
    marketData,   \* benchmark history, as fetched (absent = null)
    stockData,    \* target history, as fetched (absent = null)
    quote,        \* yf.quote(fullTicker), absent = null
    financials,   \* yf.quoteSummary(fullTicker, ...), absent = null
    usdInr,       \* yf.quote('USDINR=X'), absent = null
    sPrices,      \* aligned prices of the primary series
    mPrices,      \* aligned prices of the benchmark
    pairDates,    \* history variable: the date key of each aligned pair
    metrics,      \* result of calculateFinancialMetrics (absent = null)
    targetData,   \* the target's part of the response body
    env,          \* the directory and what the recommender returns
    targetSummary,\* getPeers: summary, the target's quoteSummary (null: failed)
    candidates,   \* getPeers: candidateSymbols.slice(0, 20)
    peerSummaries,\* getPeers: the quoteSummary of each capped candidate
    peerQuotes,   \* getPeers: the quote of each capped candidate
    verified,     \* getPeers: verifiedPeers, null entries included
    peerList,     \* result of getPeers
    peerFetches,  \* the [pData, pQuote, pFin] of each peer of peerList
    branchResults,\* peerResults: what each branch of the peer batch returned
    pending,      \* the fetches and branches that have not settled yet
    finalPeers,   \* the peers of the response
    searches,     \* MemStorage.searches
    nextId,       \* MemStorage.nextId
    response      \* what res.status(..).json(..) sent (absent = not yet)

vars == <<pc, req, marketData, stockData, quote, financials, usdInr, sPrices,
          mPrices, pairDates, metrics, targetData, env, targetSummary,
          candidates, peerSummaries, peerQuotes, verified, peerList, peerFetches,
          branchResults, pending, finalPeers, searches, nextId, response>>

\* the variables of the batches in flight
joinVars == <<branchResults, pending>>

\* the variables of the run after the primary batch
discoveryVars ==
    <<targetSummary, candidates, peerSummaries, peerQuotes, verified, peerList>>
storeVars == <<searches, nextId>>

-----------------------------------------------------------------------------
(* Optional values *)

Null == <<>>
Some(x) == <<x>>
IsNull(o) == o = <<>>
Val(o) == o[1]

\* JavaScript truthiness of an optional number: neither null/undefined nor 0.
Truthy(o) == o # <<>> /\ o[1] # 0

\* o || dflt  for an optional number
OrElse(o, dflt) == IF Truthy(o) THEN o[1] ELSE dflt

-----------------------------------------------------------------------------
(* Numbers: exact rationals with NaN and the two infinities *)

Abs(x) == IF x < 0 THEN -x ELSE x

Sign(x) == IF x < 0 THEN -1 ELSE IF x = 0 THEN 0 ELSE 1

RECURSIVE GCD(_, _)
GCD(a, b) == IF b = 0 THEN a ELSE GCD(b, a % b)

\* The finite number n/d (d # 0) in lowest terms, the sign in the numerator.
Fin(n, d) ==
    LET g == GCD(Abs(n), Abs(d))
        s == IF d < 0 THEN -1 ELSE 1
    IN  [k |-> "fin", n |-> (s * n) \div g, d |-> (s * d) \div g]

I(x) == [k |-> "fin", n |-> x, d |-> 1]
NaN == [k |-> "nan", n |-> 0, d |-> 1]
Inf(sg) == [k |-> "inf", n |-> sg, d |-> 1]

IsFinite(a) == a.k = "fin"
IsNaN(a) == a.k = "nan"
\* a === 0
IsZero(a) == a.k = "fin" /\ a.n = 0
NumSign(a) == IF a.k = "nan" THEN 0 ELSE Sign(a.n)

Neg(a) == IF a.k = "nan" THEN NaN ELSE [a EXCEPT !.n = -a.n]

Add(a, b) ==
    IF a.k = "nan" \/ b.k = "nan" THEN NaN
    ELSE IF a.k = "inf" /\ b.k = "inf" THEN (IF a.n = b.n THEN a ELSE NaN)
    ELSE IF a.k = "inf" THEN a
    ELSE IF b.k = "inf" THEN b
    ELSE Fin(a.n * b.d + b.n * a.d, a.d * b.d)

Sub(a, b) == Add(a, Neg(b))

Mul(a, b) ==
    IF a.k = "nan" \/ b.k = "nan" THEN NaN
    ELSE IF a.k = "inf" \/ b.k = "inf"
         THEN (IF a.n = 0 \/ b.n = 0 THEN NaN ELSE Inf(Sign(a.n) * Sign(b.n)))
    ELSE Fin(a.n * b.n, a.d * b.d)

Div(a, b) ==
    IF a.k = "nan" \/ b.k = "nan" THEN NaN
    ELSE IF a.k = "inf"
         THEN (IF b.k = "inf" THEN NaN
               ELSE Inf(a.n * (IF b.n < 0 THEN -1 ELSE 1)))
    ELSE IF b.k = "inf" THEN I(0)
    ELSE IF b.n = 0 THEN (IF a.n = 0 THEN NaN ELSE Inf(Sign(a.n)))
    ELSE Fin(a.n * b.d, a.d * b.n)

\* a >= b for finite numbers
Geq(a, b) == a.n * b.d >= b.n * a.d

(* Roots: sg * sqrt(sq), sq a number that is not negative, or NaN *)
RootNaN == [sg |-> 0, sq |-> NaN]

\* Math.sqrt(a)
Sqrt(a) ==
    IF a.k = "nan" \/ a.n < 0 THEN RootNaN
    ELSE [sg |-> Sign(a.n), sq |-> a]

\* r1 * r2
RootMul(r1, r2) ==
    LET p == Mul(r1.sq, r2.sq)
    IN  IF p.k = "nan" THEN RootNaN ELSE [sg |-> r1.sg * r2.sg, sq |-> p]

\* a / r
DivRoot(a, r) ==
    LET q == Div(Mul(a, a), r.sq)
    IN  IF a.k = "nan" \/ q.k = "nan" THEN RootNaN
        ELSE [sg |-> NumSign(a) * (IF r.sg < 0 THEN -1 ELSE 1), sq |-> q]

\* r ** 2
RootSquare(r) == r.sq

-----------------------------------------------------------------------------
(* calculateFinancialMetrics *)

RECURSIVE SumFrom(_, _, _)
\* seq.reduce((a, b) => a + b, acc) from index i on
SumFrom(seq, i, acc) ==
    IF i > Len(seq) THEN acc ELSE SumFrom(seq, i + 1, Add(acc, seq[i]))

Sum(seq) == SumFrom(seq, 1, I(0))

\* the first return of the function: unequal lengths or fewer than 2 prices
BadLengths(stockPrices, marketPrices) ==
    Len(stockPrices) # Len(marketPrices) \/ Len(stockPrices) < 2

\* one simple return, (p[i] - p[i-1]) / p[i-1], with no check of p[i-1]
SimpleReturn(cur, prev) == Div(Sub(I(cur), I(prev)), I(prev))

\* the loop that fills stockReturns / marketReturns
Returns(prices) ==
    [i \in 1..(Len(prices) - 1) |-> SimpleReturn(prices[i + 1], prices[i])]

TooFewReturns(n) == n < 2

\* mutants of ZeroVariance: only one of the two variances is tested
ZeroVarianceMarketOnly(varianceMarket, varianceStock) ==
    IsZero(varianceMarket)

ZeroVarianceStockOnly(varianceMarket, varianceStock) ==
    IsZero(varianceStock)

\* the check made after the sums: no dispersion in one of the two vectors
ZeroVariance(varianceMarket, varianceStock) ==
    IsZero(varianceMarket) \/ IsZero(varianceStock)

\* the object returned by calculateFinancialMetrics
MetricsRecord(beta, alpha, correlation, rSquared, volatility) ==
    [beta |-> beta, alpha |-> alpha, correlation |-> correlation,
     rSquared |-> rSquared, volatility |-> volatility]

calculateFinancialMetrics(stockPrices, marketPrices) ==
    IF BadLengths(stockPrices, marketPrices) THEN Null
    ELSE
    LET stockReturns == Returns(stockPrices)
        marketReturns == Returns(marketPrices)
        n == Len(stockReturns)
    IN  IF TooFewReturns(n) THEN Null
        ELSE
        LET meanStock == Div(Sum(stockReturns), I(n))
            meanMarket == Div(Sum(marketReturns), I(n))
            diffS == [i \in 1..n |-> Sub(stockReturns[i], meanStock)]
            diffM == [i \in 1..n |-> Sub(marketReturns[i], meanMarket)]
            covariance == Sum([i \in 1..n |-> Mul(diffS[i], diffM[i])])
            varianceMarket == Sum([i \in 1..n |-> Mul(diffM[i], diffM[i])])
            varianceStock == Sum([i \in 1..n |-> Mul(diffS[i], diffS[i])])
        IN  IF ZeroVariance(varianceMarket, varianceStock) THEN Null
            ELSE
            LET beta == Div(covariance, varianceMarket)
                alpha == Sub(meanStock, Mul(beta, meanMarket))
                correlation ==
                    DivRoot(covariance,
                            RootMul(Sqrt(varianceStock), Sqrt(varianceMarket)))
                rSquared == RootSquare(correlation)
                standardDeviation == Sqrt(Div(varianceStock, I(n - 1)))
                volatility == RootMul(standardDeviation, Sqrt(I(252)))
            IN  Some(MetricsRecord(beta, alpha, correlation, rSquared,
                                   volatility))

\* The variance sums of a price sequence, as the function computes them.
VarianceOf(prices) ==
    LET r == Returns(prices)
        n == Len(r)
        mean == Div(Sum(r), I(n))
    IN  Sum([i \in 1..n |-> Mul(Sub(r[i], mean), Sub(r[i], mean))])

-----------------------------------------------------------------------------
(* Alignment of a history against the benchmark (registerRoutes) *)

\* d.date.toISOString().split('T')[0]: the UTC calendar day of a timestamp
TicksPerDay == 2
DateKey(t) == t \div TicksPerDay

RECURSIVE BuildDateMap(_, _, _)
\* marketData.forEach(d => { if (d && d.close) dateMap.set(key, d.close) })
BuildDateMap(data, i, map) ==
    IF i > Len(data) THEN map
    ELSE BuildDateMap(data, i + 1,
             IF Truthy(data[i].close)
             THEN [x \in DOMAIN map \cup {DateKey(data[i].t)} |->
                      IF x = DateKey(data[i].t) THEN data[i].close[1]
                      ELSE map[x]]
             ELSE map)

EmptyMap == [x \in {} |-> 0]
DateMapOf(data) == BuildDateMap(data, 1, EmptyMap)

\* mutant of MapGet: a price of the map, whatever its date
MapGetAnyDate(map, key) ==
    IF DOMAIN map = {} THEN Null
    ELSE Some(map[CHOOSE x \in DOMAIN map : \A y \in DOMAIN map : x <= y])

\* dateMap.get(key): absent when the key is not in the map
MapGet(map, key) == IF key \in DOMAIN map THEN Some(map[key]) ELSE Null

\* mutant of PairKept: a test against null instead of truthiness
PairKeptNonNull(mPrice, close) == mPrice # Null /\ close # Null

\* if (mPrice && d.close): the pair is pushed
PairKept(mPrice, close) == Truthy(mPrice) /\ Truthy(close)

RECURSIVE AlignFrom(_, _, _, _)
\* data.forEach(d => { ...; if (mPrice && d.close) { push; push } })
\* acc = [s |-> sPrices, m |-> mPrices, dates |-> date key of each pair]
AlignFrom(data, i, map, acc) ==
    IF i > Len(data) THEN acc
    ELSE LET d == data[i]
             dateStr == DateKey(d.t)
             mPrice == MapGet(map, dateStr)
         IN  AlignFrom(data, i + 1, map,
                 IF PairKept(mPrice, d.close)
                 THEN [s |-> Append(acc.s, d.close[1]),
                       m |-> Append(acc.m, mPrice[1]),
                       dates |-> Append(acc.dates, dateStr)]
                 ELSE acc)

Align(data, map) == AlignFrom(data, 1, map, [s |-> <<>>, m |-> <<>>, dates |-> <<>>])

-----------------------------------------------------------------------------
(* Currency normalisation and the snapshot fields (registerRoutes) *)

\* const exchangeRate = usdInr?.regularMarketPrice || 83.0
FallbackRate == 83

\* mutant of ExchangeRate: no conversion when the rate did not come
ExchangeRateNoFallback(fx) ==
    IF fx = Null THEN 1 ELSE OrElse(fx[1].regularMarketPrice, 1)

ExchangeRate(fx) ==
    IF fx = Null THEN FallbackRate
    ELSE OrElse(fx[1].regularMarketPrice, FallbackRate)

\* quote?.currency || 'INR'
TradingCurrency(q) ==
    IF q # Null /\ q[1].currency # Null THEN q[1].currency[1] ELSE "INR"

\* financials?.financialData?.financialCurrency || tradingCurrency
FinancialCurrency(f, tradingCurrency) ==
    IF f # Null /\ f[1].financialCurrency # Null
    THEN f[1].financialCurrency[1]
    ELSE tradingCurrency

\* mutant of Factor: every currency is converted
FactorAlways(currency, exchangeRate) == exchangeRate

\* currency === 'USD' ? exchangeRate : 1
Factor(currency, exchangeRate) ==
    IF currency = "USD" THEN exchangeRate ELSE 1

\* x?.field  of a fetched object that may be null
Field(o, name) == IF o = Null THEN Null ELSE o[1][name]

\* (x?.field || 0) * factor
Scaled(raw, factor) == OrElse(raw, 0) * factor

\* mutant of EvRevenueMultiple: the raw quotient, no currency factor
EvRevenueMultipleRaw(ev, rev, financialFactor, priceFactor) ==
    IF Truthy(ev) /\ Truthy(rev)
    THEN Some(Div(I(ev[1]), I(rev[1])))
    ELSE Null

\* (ev && rev) ? ev / (rev * financialFactor / priceFactor) : undefined
EvRevenueMultiple(ev, rev, financialFactor, priceFactor) ==
    IF Truthy(ev) /\ Truthy(rev)
    THEN Some(Div(I(ev[1]),
                  Div(Mul(I(rev[1]), I(financialFactor)), I(priceFactor))))
    ELSE Null

\* The fundamentals of targetData, and of a peer's entry: the two places hold
\* the same expressions.  q is the quote, f the quoteSummary (null = absent).
FinancialSnapshot(q, f, exchangeRate) ==
    LET tradingCurrency == TradingCurrency(q)
        financialCurrency == FinancialCurrency(f, tradingCurrency)
        priceFactor == Factor(tradingCurrency, exchangeRate)
        financialFactor == Factor(financialCurrency, exchangeRate)
    IN  [marketCap |-> Scaled(Field(q, "marketCap"), priceFactor),
         revenue |-> Scaled(Field(f, "totalRevenue"), financialFactor),
         enterpriseValue |-> Scaled(Field(f, "enterpriseValue"), priceFactor),
         evRevenueMultiple |->
             EvRevenueMultiple(Field(f, "enterpriseValue"),
                               Field(f, "totalRevenue"),
                               financialFactor, priceFactor),
         peRatio |-> Field(f, "trailingPE"),
         pbRatio |-> Field(f, "priceToBook"),
         dividendYield |-> Field(f, "dividendYield"),
         ebitda |-> Scaled(Field(f, "ebitda"), financialFactor),
         debtToEquity |-> Field(f, "debtToEquity"),
         profitMargin |-> Field(f, "profitMargins")]

-----------------------------------------------------------------------------
(* Bounded inputs *)

MaxPrices == 4
PriceVals == {-1, 0, 1, 2}
PriceSeqs == UNION {[1..n -> PriceVals] : n \in 0..MaxPrices}

MaxTick == 2
MaxStockLen == 3
MaxMarketLen == 2
Ticks == 0..MaxTick
Days == {DateKey(t) : t \in Ticks}
CloseVals == {Null, Some(0), Some(1), Some(2)}
Rows == [t : Ticks, close : CloseVals]

\* a history is ordered by time
Ordered(data) == \A i \in 1..(Len(data) - 1) : data[i].t <= data[i + 1].t
Histories(maxLen) ==
    {h \in UNION {[1..n -> Rows] : n \in 0..maxLen} : Ordered(h)}

-----------------------------------------------------------------------------
(* Harness of calculateFinancialMetrics: the inputs are drawn, the function
   is applied once. *)

RunVarsUnused ==
    /\ req = Null
    /\ env = Null
    /\ targetSummary = Null
    /\ candidates = <<>>
    /\ peerSummaries = <<>>
    /\ peerQuotes = <<>>
    /\ verified = <<>>
    /\ peerList = <<>>
    /\ peerFetches = <<>>
    /\ branchResults = <<>>
    /\ pending = {}
    /\ finalPeers = <<>>
    /\ searches = <<>>
    /\ nextId = 1
    /\ response = Null

MetricsInit ==
    /\ pc = "metrics"
    /\ sPrices \in PriceSeqs
    /\ mPrices \in PriceSeqs
    /\ metrics = Null
    /\ pairDates = <<>>
    /\ marketData = Null
    /\ stockData = Null
    /\ quote = Null
    /\ financials = Null
    /\ usdInr = Null
    /\ targetData = Null
    /\ RunVarsUnused

ComputeMetrics ==
    /\ pc = "metrics"
    /\ metrics' = calculateFinancialMetrics(sPrices, mPrices)
    /\ pc' = "metricsDone"
    /\ UNCHANGED <<joinVars, req, marketData, stockData, quote, financials, usdInr,
                   sPrices, mPrices, pairDates, targetData, env,
                   discoveryVars, peerFetches, finalPeers, storeVars,
                   response>>

SpecMetrics == MetricsInit /\ [][ComputeMetrics]_vars

(* Harness of the alignment: two histories are drawn, the primary one is
   aligned against the benchmark once. *)

AlignInit ==
    /\ pc = "align"
    /\ stockData \in {Some(h) : h \in Histories(MaxStockLen)}
    /\ marketData \in {Some(h) : h \in Histories(MaxMarketLen)}
    /\ sPrices = <<>>
    /\ mPrices = <<>>
    /\ pairDates = <<>>
    /\ metrics = Null
    /\ quote = Null
    /\ financials = Null
    /\ usdInr = Null
    /\ targetData = Null
    /\ RunVarsUnused

AlignStep ==
    /\ pc = "align"
    /\ LET a == Align(stockData[1], DateMapOf(marketData[1]))
       IN  /\ sPrices' = a.s
           /\ mPrices' = a.m
           /\ pairDates' = a.dates
    /\ pc' = "alignDone"
    /\ UNCHANGED <<joinVars, req, marketData, stockData, quote, financials, usdInr,
                   metrics, targetData, env, discoveryVars, peerFetches,
                   finalPeers, storeVars, response>>

SpecAlign == AlignInit /\ [][AlignStep]_vars

-----------------------------------------------------------------------------
(* Properties of the alignment *)

CountIn(seq, x) == Cardinality({i \in DOMAIN seq : seq[i] = x})

\* date d has a valid close in the history
ValidIn(data, d) ==
    \E i \in DOMAIN data : DateKey(data[i].t) = d /\ Truthy(data[i].close)

\* the number of rows of date d with a valid close
ValidRows(data, d) ==
    Cardinality({i \in DOMAIN data :
                    DateKey(data[i].t) = d /\ Truthy(data[i].close)})

\* the close of the last row of date d that has a valid close
LastValidClose(data, d) ==
    LET last == CHOOSE i \in DOMAIN data :
                    /\ DateKey(data[i].t) = d /\ Truthy(data[i].close)
                    /\ \A j \in DOMAIN data :
                          (DateKey(data[j].t) = d /\ Truthy(data[j].close))
                              => j <= i
    IN  data[last].close[1]

\* the rows of the primary history that the inner join keeps, in order
KeptRows(primary, benchmark) ==
    LET Keep(r) == Truthy(r.close) /\ ValidIn(benchmark, DateKey(r.t))
    IN  SelectSeq(primary, Keep)

\* C1 as stated: for every date d the output holds a pair for d iff d has a
\* valid close in both histories, and then exactly once, whether or not d
\* occurs more than once in an input.
C1_AsStated ==
    pc = "alignDone" =>
        \A d \in Days :
            CountIn(pairDates, d) =
                IF ValidIn(stockData[1], d) /\ ValidIn(marketData[1], d)
                THEN 1 ELSE 0

\* C1 amended: the output is the primary history's rows that have a valid
\* close and whose date has a valid close in the benchmark, in the primary
\* history's order, each paired with the benchmark's last valid close of that
\* date.  So a date d has a pair iff it has a valid close in both inputs, and
\* it has one pair per valid primary row of d: exactly one when d occurs once
\* in the primary history; a date repeated in the benchmark adds no pair.
C1_InnerJoinPerPrimaryRow ==
    pc = "alignDone" =>
        LET kept == KeptRows(stockData[1], marketData[1])
        IN  /\ Len(sPrices) = Len(kept)
            /\ Len(mPrices) = Len(kept)
            /\ Len(pairDates) = Len(kept)
            /\ \A i \in 1..Len(kept) :
                  /\ sPrices[i] = kept[i].close[1]
                  /\ pairDates[i] = DateKey(kept[i].t)
                  /\ mPrices[i] =
                        LastValidClose(marketData[1], DateKey(kept[i].t))
            /\ \A d \in Days :
                  /\ CountIn(pairDates, d) > 0 <=>
                        (ValidIn(stockData[1], d) /\ ValidIn(marketData[1], d))
                  /\ CountIn(pairDates, d) =
                        IF ValidIn(marketData[1], d)
                        THEN ValidRows(stockData[1], d) ELSE 0
                  /\ ValidRows(stockData[1], d) <= 1 =>
                        CountIn(pairDates, d) <= 1

\* C1 witness: a date that is valid, and repeated, in both histories has been
\* aligned, next to a row dropped for an invalid close.
C1_Witness ==
    /\ pc = "alignDone"
    /\ \E d \in Days :
          /\ ValidRows(stockData[1], d) = 2
          /\ ValidRows(marketData[1], d) = 2
          /\ CountIn(pairDates, d) = 2
    /\ Len(sPrices) < Len(stockData[1])

-----------------------------------------------------------------------------
(* Properties of calculateFinancialMetrics *)

AllPositive(prices) == \A i \in DOMAIN prices : prices[i] > 0

IsConstant(prices) == \A i, j \in DOMAIN prices : prices[i] = prices[j]

\* some leading price p[i-1] of the sequence is zero or negative
NonPositiveLeading(prices) ==
    \E i \in 1..(Len(prices) - 1) : prices[i] <= 0

\* equal lengths, at least 3 prices, all strictly positive
C2_Pre ==
    /\ pc = "metricsDone"
    /\ Len(sPrices) = Len(mPrices)
    /\ Len(sPrices) >= 3
    /\ AllPositive(sPrices)
    /\ AllPositive(mPrices)

\* C2 as stated: equal-length sequences of at least 3 strictly positive
\* prices always give a populated RiskMetrics, a constant sequence included.
C2_AsStated == C2_Pre => metrics # Null

\* C2 amended: equal-length sequences of at least 3 strictly positive prices
\* give a populated RiskMetrics exactly when neither the stock returns nor the
\* market returns have zero variance; when one sequence is constant the
\* result is absent.
C2_PopulatedUnlessZeroVariance ==
    C2_Pre =>
        /\ metrics # Null <=>
              ~(IsZero(VarianceOf(sPrices)) \/ IsZero(VarianceOf(mPrices)))
        /\ (IsConstant(sPrices) \/ IsConstant(mPrices)) => metrics = Null

\* C2 witness: positive sequences of equal length >= 3, a populated result.
C2_Witness ==
    /\ C2_Pre
    /\ metrics # Null
    /\ IsFinite(metrics[1].beta)

\* C3: no RiskMetrics from fewer than 2 returns (fewer than 3 prices in a
\* sequence, two price points included), nor when the stock returns or the
\* market returns have zero variance: the result is absent.
C3_AbsentWhenDegenerate ==
    pc = "metricsDone" =>
        /\ (Len(sPrices) < 3 \/ Len(mPrices) < 3) => metrics = Null
        /\ (Len(sPrices) >= 3 /\ IsZero(VarianceOf(sPrices))) => metrics = Null
        /\ (Len(mPrices) >= 3 /\ IsZero(VarianceOf(mPrices))) => metrics = Null

\* C3 witness: equal lengths, enough prices, only the stock returns have zero
\* variance, and the result is absent.
C3_Witness ==
    /\ pc = "metricsDone"
    /\ Len(sPrices) = Len(mPrices)
    /\ Len(sPrices) >= 3
    /\ IsZero(VarianceOf(sPrices))
    /\ ~IsZero(VarianceOf(mPrices))
    /\ IsFinite(VarianceOf(mPrices))
    /\ metrics = Null

\* C4 as stated: a zero or negative leading price in the stock or the market
\* sequence makes the result absent.
C4_AbsentOnNonPositivePrice ==
    (pc = "metricsDone"
        /\ (NonPositiveLeading(sPrices) \/ NonPositiveLeading(mPrices)))
    => metrics = Null

-----------------------------------------------------------------------------
(* Harness of the snapshot: a quote, a quoteSummary and an FX quote are drawn,
   the snapshot fields are computed once. *)

Currencies == {Null, Some("INR"), Some("USD")}

Quotes ==
    {Null} \cup
    {Some(q) : q \in [currency : Currencies,
                      marketCap : {Null, Some(0), Some(5)},
                      shortName : {Null}]}

Summaries ==
    {Null} \cup
    {Some(f) : f \in [financialCurrency : Currencies,
                      totalRevenue : {Null, Some(0), Some(4)},
                      enterpriseValue : {Null, Some(0), Some(6)},
                      ebitda : {Null, Some(3)},
                      trailingPE : {Null, Some(11)},
                      priceToBook : {Null, Some(12)},
                      dividendYield : {Null, Some(13)},
                      debtToEquity : {Null, Some(14)},
                      profitMargins : {Null, Some(15)}]}

FxQuotes ==
    {Null} \cup
    {Some([regularMarketPrice |-> r]) :
        r \in {Null, Some(0), Some(1), Some(2), Some(7)}}

SnapshotInit ==
    /\ pc = "snapshot"
    /\ quote \in Quotes
    /\ financials \in Summaries
    /\ usdInr \in FxQuotes
    /\ targetData = Null
    /\ sPrices = <<>>
    /\ mPrices = <<>>
    /\ pairDates = <<>>
    /\ metrics = Null
    /\ marketData = Null
    /\ stockData = Null
    /\ RunVarsUnused

BuildSnapshot ==
    /\ pc = "snapshot"
    /\ targetData' = Some(FinancialSnapshot(quote, financials,
                                            ExchangeRate(usdInr)))
    /\ pc' = "snapshotDone"
    /\ UNCHANGED <<joinVars, req, marketData, stockData, quote, financials, usdInr,
                   sPrices, mPrices, pairDates, metrics, env, discoveryVars,
                   peerFetches, finalPeers, storeVars, response>>

SpecSnapshot == SnapshotInit /\ [][BuildSnapshot]_vars

-----------------------------------------------------------------------------
(* Properties of the currency normalisation *)

\* the currency that governs the price-based fields: the quote's currency, the
\* base currency when the quote does not tell
GoverningPriceCurrency(q) ==
    IF Field(q, "currency") = Null THEN "INR" ELSE Field(q, "currency")[1]

\* the currency that governs the report-based fields: the reporting currency
\* of the fundamentals, the trading currency when they do not tell
GoverningReportCurrency(q, f) ==
    IF Field(f, "financialCurrency") = Null THEN GoverningPriceCurrency(q)
    ELSE Field(f, "financialCurrency")[1]

\* the value claimed for a monetary field: raw * rate under USD, raw otherwise
Normalized(raw, currency, rate) ==
    IF currency = "USD" THEN raw * rate ELSE raw

\* a monetary field with a raw value is normalised as claimed
MonetaryOk(out, raw, currency, rate) ==
    raw # Null =>
        /\ out = Normalized(raw[1], currency, rate)
        /\ rate = 1 => out = raw[1]
        /\ currency # "USD" => out = raw[1]

\* C8: a monetary field governed by USD is its raw value times
\* fxRateUsdToBase (so the raw value itself at rate 1); a monetary field
\* governed by the base currency, and every ratio field, equals its raw input
\* whatever the rate.  Monetary fields are compared where the raw value is
\* present.
C8_NormalizationByRate ==
    pc = "snapshotDone" =>
        LET snap == targetData[1]
            rate == ExchangeRate(usdInr)
            pcur == GoverningPriceCurrency(quote)
            rcur == GoverningReportCurrency(quote, financials)
        IN  /\ MonetaryOk(snap.marketCap, Field(quote, "marketCap"), pcur, rate)
            /\ MonetaryOk(snap.enterpriseValue,
                          Field(financials, "enterpriseValue"), pcur, rate)
            /\ MonetaryOk(snap.revenue, Field(financials, "totalRevenue"),
                          rcur, rate)
            /\ MonetaryOk(snap.ebitda, Field(financials, "ebitda"), rcur, rate)
            /\ snap.peRatio = Field(financials, "trailingPE")
            /\ snap.pbRatio = Field(financials, "priceToBook")
            /\ snap.dividendYield = Field(financials, "dividendYield")
            /\ snap.debtToEquity = Field(financials, "debtToEquity")
            /\ snap.profitMargin = Field(financials, "profitMargins")

\* C8 witness: a snapshot whose price-based fields are in USD and whose
\* report-based fields are in the base currency, at a rate other than 1.
C8_Witness ==
    /\ pc = "snapshotDone"
    /\ GoverningPriceCurrency(quote) = "USD"
    /\ GoverningReportCurrency(quote, financials) = "INR"
    /\ ExchangeRate(usdInr) = 7
    /\ targetData[1].marketCap = 35
    /\ targetData[1].revenue = 4
    /\ targetData[1].peRatio = Some(11)

\* C9: evRevenueMultiple, when present, is the snapshot's enterpriseValue
\* divided by the snapshot's revenue (both in the base currency), and it is
\* absent when the revenue is absent or zero.
C9_EvRevenueOfNormalized ==
    pc = "snapshotDone" =>
        LET snap == targetData[1]
        IN  /\ snap.evRevenueMultiple # Null =>
                  snap.evRevenueMultiple[1] =
                      Div(I(snap.enterpriseValue), I(snap.revenue))
            /\ ~Truthy(Field(financials, "totalRevenue")) =>
                  snap.evRevenueMultiple = Null

\* C9 witness: the multiple is present for a security that trades in the base
\* currency and reports in USD.
C9_Witness ==
    /\ pc = "snapshotDone"
    /\ targetData[1].evRevenueMultiple # Null
    /\ GoverningPriceCurrency(quote) = "INR"
    /\ GoverningReportCurrency(quote, financials) = "USD"
    /\ ExchangeRate(usdInr) = 7

-----------------------------------------------------------------------------
(* Peer discovery: getPeers.  A symbol is the sequence of the parts that the
   dots separate, "TCS.NS" = <<base, "NS">>; the base is a number here. *)

Min(a, b) == IF a < b THEN a ELSE b

\* a string that is neither undefined nor empty
StrTruthy(o) == o # Null /\ o[1] # ""

\* symbol.split('.')[0]
TickerBase(symbol) == symbol[1]

\* industryList.find(i => i.symbol === base)?.industry
DirectoryIndustry(list, base) ==
    IF \E i \in DOMAIN list : list[i].symbol = base
    THEN LET first == CHOOSE i \in DOMAIN list :
                          /\ list[i].symbol = base
                          /\ \A j \in DOMAIN list :
                                list[j].symbol = base => i <= j
         IN  Some(list[first].industry)
    ELSE Null

\* industryList.filter(same industry, not the target).map(symbol + ".NS")
IndustryPeers(list, excelIndustry, tickerBase) ==
    LET Match(item) ==
            item.industry = excelIndustry /\ item.symbol # tickerBase
        kept == SelectSeq(list, Match)
    IN  [i \in 1..Len(kept) |-> <<kept[i].symbol, "NS">>]

RECURSIVE DedupFrom(_, _, _)
\* Array.from(new Set(seq)): the first occurrence of each element, in order
DedupFrom(seq, i, acc) ==
    IF i > Len(seq) THEN acc
    ELSE DedupFrom(seq, i + 1,
             IF \E j \in DOMAIN acc : acc[j] = seq[i] THEN acc
             ELSE Append(acc, seq[i]))

\* mutant of CandidateSymbols: the whole directory is offered, match or not
CandidateSymbolsAll(recommended, list, tickerBase, excelIndustry) ==
    DedupFrom(recommended \o [i \in DOMAIN list |-> <<list[i].symbol, "NS">>],
              1, <<>>)

\* candidateSymbols: the recommender's symbols, and with a directory match of
\* the target the directory's peers after them, de-duplicated
CandidateSymbols(recommended, list, tickerBase, excelIndustry) ==
    IF StrTruthy(excelIndustry)
    THEN DedupFrom(recommended \o
                       IndustryPeers(list, excelIndustry[1], tickerBase),
                   1, <<>>)
    ELSE recommended

\* candidateSymbols.slice(0, 20)
CandidateCap == 20
Capped(symbols) == SubSeq(symbols, 1, Min(CandidateCap, Len(symbols)))

\* mutant of Rejected: the target's own symbol is not turned away
RejectedTargetKept(s, symbol, ticker) ==
    s = Null \/ s[1].assetProfile = Null

\* if (!s?.assetProfile || symbol === ticker) return null
Rejected(s, symbol, ticker) ==
    s = Null \/ s[1].assetProfile = Null \/ symbol = ticker

\* mutant of SameIndustry: both sources must agree
SameIndustryBoth(profile, symbol, targetIndustry, excelIndustry, list) ==
    /\ (profile.industry # Null /\ profile.industry[1] = targetIndustry)
    /\ (StrTruthy(excelIndustry)
           /\ DirectoryIndustry(list, TickerBase(symbol)) = excelIndustry)

\* isSameIndustry
SameIndustry(profile, symbol, targetIndustry, excelIndustry, list) ==
    \/ (profile.industry # Null /\ profile.industry[1] = targetIndustry)
    \/ (StrTruthy(excelIndustry)
           /\ DirectoryIndustry(list, TickerBase(symbol)) = excelIndustry)

\* quote?.currency || s.financialData?.financialCurrency || 'INR'
PeerCurrency(q, s) ==
    IF StrTruthy(Field(q, "currency")) THEN Field(q, "currency")[1]
    ELSE IF StrTruthy(s.financialCurrency) THEN s.financialCurrency[1]
    ELSE "INR"

\* (s.summaryDetail?.marketCap || 0) * peerConversionFactor
PeerMarketCap(s, q, exchangeRate) ==
    OrElse(s.marketCap, 0) * Factor(PeerCurrency(q, s), exchangeRate)

\* `${sector || 'Unknown'} > ${industry || 'Unknown'}`
SectorLabel(profile) ==
    <<IF StrTruthy(profile.sector) THEN profile.sector[1] ELSE "Unknown",
      IF StrTruthy(profile.industry) THEN profile.industry[1] ELSE "Unknown">>

\* mutant of VerifyPeer: a candidate without a quote is turned away
VerifyPeerQuoteNeeded(symbol, s, q, ctx) ==
    IF Rejected(s, symbol, ctx.ticker) \/ q = Null THEN Null
    ELSE IF ~SameIndustry(s[1].assetProfile[1], symbol, ctx.targetIndustry,
                          ctx.excelIndustry, ctx.list)
    THEN Null
    ELSE Some([slug |-> symbol,
               sector |-> SectorLabel(s[1].assetProfile[1]),
               marketCap |-> PeerMarketCap(s[1], q, ctx.exchangeRate)])

\* one branch of verifiedPeers; q is the quote the branch fetches if it gets
\* that far; ctx holds ticker, targetIndustry, excelIndustry, the directory
\* and exchangeRate
VerifyPeer(symbol, s, q, ctx) ==
    IF Rejected(s, symbol, ctx.ticker) THEN Null
    ELSE IF ~SameIndustry(s[1].assetProfile[1], symbol, ctx.targetIndustry,
                          ctx.excelIndustry, ctx.list)
    THEN Null
    ELSE Some([slug |-> symbol,
               sector |-> SectorLabel(s[1].assetProfile[1]),
               marketCap |-> PeerMarketCap(s[1], q, ctx.exchangeRate)])

\* arr.filter(p => p !== null)
NonNull(seq) ==
    LET Present(o) == o # Null
        kept == SelectSeq(seq, Present)
    IN  [i \in 1..Len(kept) |-> kept[i][1]]

\* mutant of InsertDesc: x goes before the elements of its own marketCap
InsertDescBeforeEquals(sorted, x) ==
    LET k == Cardinality({i \in DOMAIN sorted :
                             sorted[i].marketCap > x.marketCap})
    IN  SubSeq(sorted, 1, k) \o <<x>> \o SubSeq(sorted, k + 1, Len(sorted))

\* Insertion of x into a sequence sorted by marketCap, descending, after the
\* elements that do not rank lower: Array.prototype.sort is stable.
InsertDesc(sorted, x) ==
    LET k == Cardinality({i \in DOMAIN sorted :
                             sorted[i].marketCap >= x.marketCap})
    IN  SubSeq(sorted, 1, k) \o <<x>> \o SubSeq(sorted, k + 1, Len(sorted))

RECURSIVE SortDescFrom(_, _, _)
SortDescFrom(seq, i, acc) ==
    IF i > Len(seq) THEN acc
    ELSE SortDescFrom(seq, i + 1, InsertDesc(acc, seq[i]))

\* .sort((a, b) => b.marketCap - a.marketCap)
SortByMarketCapDesc(seq) == SortDescFrom(seq, 1, <<>>)

\* mutant of TopPeers: no truncation
TopPeersUncut(sorted) == sorted

\* .slice(0, 10)
PeerCap == 10
TopPeers(sorted) == SubSeq(sorted, 1, Min(PeerCap, Len(sorted)))

\* What the provider answers for a candidate.  The answers for the symbols
\* of base 1 are drawn when the batch resolves (answers.summary,
\* answers.quote, ...); every other symbol has one fixed answer.
BulkIndustry(base) == IF base % 4 = 3 THEN "Bank" ELSE "Tech"

BulkCap(base) == ((base * 3) % 5) + 1

BulkSummary(symbol) ==
    LET base == TickerBase(symbol)
    IN  Some([assetProfile |->
                  Some([industry |-> Some(BulkIndustry(base)),
                        sector |-> Some("IT")]),
              marketCap |-> Some(BulkCap(base)),
              financialCurrency |->
                  IF base % 3 = 0 THEN Some("USD") ELSE Null])

BulkQuote(symbol) ==
    LET base == TickerBase(symbol)
    IN  Some([currency |-> IF base % 5 = 0 THEN Some("USD") ELSE Some("INR"),
              marketCap |->
                  Some(BulkCap(base) + (IF base % 7 = 0 THEN 3 ELSE 0)
                           - (IF base % 6 = 0 THEN 1 ELSE 0)),
              shortName |-> Null])

IsFree(symbol) == TickerBase(symbol) = 1

SummaryOf(symbol, answers) ==
    IF IsFree(symbol) THEN answers.summary ELSE BulkSummary(symbol)

QuoteOf(symbol, answers) ==
    IF IsFree(symbol) THEN answers.quote ELSE BulkQuote(symbol)

\* the locals of getPeers and the value it returns, when it returns [] early
NoPeers ==
    [candidates |-> <<>>, summaries |-> <<>>, quotes |-> <<>>,
     verified |-> <<>>, peers |-> <<>>]

\* getPeers.  summary: the target's quoteSummary (null: failed);
\* recommended: the recommender's symbols (null: the call threw, which the
\* function's catch turns into []); list: industryList; answers: what the
\* provider answers for the candidates.  The result holds the locals of the
\* function (for the properties) and, in peers, the value it returns.
getPeers(ticker, exchangeRate, summary, recommended, list, answers) ==
    IF summary = Null \/ summary[1].assetProfile = Null THEN NoPeers
    ELSE IF recommended = Null THEN NoPeers
    ELSE
    LET industry == summary[1].assetProfile[1].industry
        tickerBase == TickerBase(ticker)
        excelIndustry == DirectoryIndustry(list, tickerBase)
        ctx == [ticker |-> ticker,
                targetIndustry |->
                    IF StrTruthy(industry) THEN industry[1] ELSE "",
                excelIndustry |-> excelIndustry,
                list |-> list,
                exchangeRate |-> exchangeRate]
        capped == Capped(CandidateSymbols(recommended[1], list, tickerBase,
                                          excelIndustry))
        n == Len(capped)
        summaries == [i \in 1..n |-> SummaryOf(capped[i], answers)]
        passes == [i \in 1..n |->
                      VerifyPeer(capped[i], summaries[i], Null, ctx) # Null]
        quotes == [i \in 1..n |->
                      IF passes[i] THEN QuoteOf(capped[i], answers) ELSE Null]
        verifiedPeers ==
            [i \in 1..n |-> VerifyPeer(capped[i], summaries[i], quotes[i], ctx)]
    IN  [candidates |-> capped, summaries |-> summaries, quotes |-> quotes,
         verified |-> verifiedPeers,
         peers |-> TopPeers(SortByMarketCapDesc(NonNull(verifiedPeers)))]

-----------------------------------------------------------------------------
(* The POST handler of registerRoutes *)

\* const suffix = exchange === "NSE" ? ".NS" : ".BO"
Suffix(exchange) == IF exchange = "NSE" THEN "NS" ELSE "BO"

\* ticker.endsWith(suffix)
EndsWith(ticker, suffix) == Len(ticker) >= 2 /\ ticker[Len(ticker)] = suffix

\* const fullTicker = ticker.endsWith(suffix) ? ticker : `${ticker}${suffix}`
FullTicker(ticker, exchange) ==
    IF EndsWith(ticker, Suffix(exchange)) THEN ticker
    ELSE Append(ticker, Suffix(exchange))

\* mutant of NoData: an empty history counts as data
NoDataNullOnly(data) == data = Null

\* !data || data.length === 0
NoData(data) == data = Null \/ Len(data[1]) = 0

\* the statistical fields and the fundamentals of targetData
TargetData(fullTicker, m, q, f, exchangeRate) ==
    [ticker |-> fullTicker, beta |-> m.beta, volatility |-> m.volatility,
     alpha |-> m.alpha, correlation |-> m.correlation,
     rSquared |-> m.rSquared]
        @@ FinancialSnapshot(q, f, exchangeRate)

\* mutant of PeerMetricFields: a missing beta is reported as 0
PeerMetricFieldsBetaZero(pMet) ==
    [beta |-> IF pMet = Null THEN Some(I(0)) ELSE Some(pMet[1].beta),
     volatility |-> IF pMet = Null THEN Null ELSE Some(pMet[1].volatility),
     alpha |-> IF pMet = Null THEN Null ELSE Some(pMet[1].alpha),
     correlation |-> IF pMet = Null THEN Null ELSE Some(pMet[1].correlation),
     rSquared |-> IF pMet = Null THEN Null ELSE Some(pMet[1].rSquared)]

\* beta: pMet?.beta ?? null, ... : the statistical fields of a peer's entry
PeerMetricFields(pMet) ==
    [beta |-> IF pMet = Null THEN Null ELSE Some(pMet[1].beta),
     volatility |-> IF pMet = Null THEN Null ELSE Some(pMet[1].volatility),
     alpha |-> IF pMet = Null THEN Null ELSE Some(pMet[1].alpha),
     correlation |-> IF pMet = Null THEN Null ELSE Some(pMet[1].correlation),
     rSquared |-> IF pMet = Null THEN Null ELSE Some(pMet[1].rSquared)]

\* pSPrices, pMPrices and pMet of one branch of peerResults
PeerMetrics(pData, dateMap) ==
    LET a == Align(pData, dateMap)
    IN  calculateFinancialMetrics(a.s, a.m)

\* the entry one branch of peerResults returns
PeerEntry(peer, fetched, dateMap, exchangeRate) ==
    [ticker |-> peer.slug, sector |-> peer.sector]
        @@ PeerMetricFields(PeerMetrics(fetched.data[1], dateMap))
        @@ FinancialSnapshot(fetched.quote, fetched.fin, exchangeRate)

\* mutant of PeerResult: a peer without metrics is left out
PeerResultDropAbsent(peer, fetched, dateMap, exchangeRate) ==
    IF fetched.data = Null \/ Len(fetched.data[1]) < 2 THEN Null
    ELSE IF PeerMetrics(fetched.data[1], dateMap) = Null THEN Null
    ELSE Some(PeerEntry(peer, fetched, dateMap, exchangeRate))

\* mutant of PeerResult: a peer whose history did not come is kept
PeerResultKeepFailed(peer, fetched, dateMap, exchangeRate) ==
    IF fetched.data = Null
    THEN Some(PeerEntry(peer, [fetched EXCEPT !.data = Some(<<>>)], dateMap,
                        exchangeRate))
    ELSE IF Len(fetched.data[1]) < 2 THEN Null
    ELSE Some(PeerEntry(peer, fetched, dateMap, exchangeRate))

\* one branch of peerResults; fetched = [data, quote, fin], the three answers
PeerResult(peer, fetched, dateMap, exchangeRate) ==
    IF fetched.data = Null \/ Len(fetched.data[1]) < 2 THEN Null
    ELSE Some(PeerEntry(peer, fetched, dateMap, exchangeRate))

\* mutant of FinalPeers: the entries stay in the order of discovery
FinalPeersUnsorted(peerResults) == NonNull(peerResults)

\* peerResults.filter(p => p !== null).sort(by marketCap, descending)
FinalPeers(peerResults) == SortByMarketCapDesc(NonNull(peerResults))

\* JSON.stringify writes a number that is not finite as null
JsonNum(o) == IF o # Null /\ IsFinite(o[1]) THEN o ELSE Null
JsonRoot(o) == IF o # Null /\ IsFinite(o[1].sq) THEN o ELSE Null

JsonMetrics(r) ==
    [beta |-> JsonNum(r.beta), volatility |-> JsonRoot(r.volatility),
     alpha |-> JsonNum(r.alpha), correlation |-> JsonRoot(r.correlation),
     rSquared |-> JsonNum(r.rSquared)] @@ r

\* res.json({ ...targetData, peers: finalPeers })
JsonBody(target, peers) ==
    [target |-> JsonMetrics([beta |-> Some(target.beta),
                             volatility |-> Some(target.volatility),
                             alpha |-> Some(target.alpha),
                             correlation |-> Some(target.correlation),
                             rSquared |-> Some(target.rSquared)] @@ target),
     peers |-> [i \in 1..Len(peers) |-> JsonMetrics(peers[i])]]

ErrorResponse(status, message) ==
    Some([status |-> status, body |-> [message |-> message]])

\* mutant of InsufficientDataPoints: the status of the missing-data answer
InsufficientDataPointsNotFound ==
    ErrorResponse(404, "Insufficient data points.")

\* res.status(400).json({ message: "Insufficient data points." })
InsufficientDataPoints == ErrorResponse(400, "Insufficient data points.")

\* mutant of FailedToFetch: the handler returns without sending anything
FailedToFetchSilent == Null

\* res.status(404).json({ message: "Failed to fetch market or stock data." })
FailedToFetch == ErrorResponse(404, "Failed to fetch market or stock data.")

\* res.status(500).json({ message: "Internal server error" })
InternalServerError == ErrorResponse(500, "Internal server error")

-----------------------------------------------------------------------------
(* What the provider can answer in a run *)

Row(day, offset, close) == [t |-> day * TicksPerDay + offset, close |-> close]

GoodMarket ==
    <<Row(0, 0, Some(1)), Row(1, 0, Some(2)), Row(2, 0, Null),
      Row(2, 1, Some(1)), Row(3, 0, Some(2)), Row(4, 0, Some(0))>>

GoodStock ==
    <<Row(0, 1, Some(1)), Row(1, 1, Some(1)), Row(2, 1, Some(2)),
      Row(3, 1, Some(1)), Row(4, 1, Some(2)), Row(5, 0, Some(3))>>

FlatStock ==
    <<Row(0, 1, Some(1)), Row(1, 1, Some(1)), Row(2, 1, Some(1)),
      Row(3, 1, Some(1))>>

ShortStock == <<Row(0, 1, Some(1)), Row(1, 1, Some(2))>>

PeerHistoryA ==
    <<Row(0, 0, Some(2)), Row(1, 0, Some(1)), Row(2, 0, Some(0)),
      Row(2, 1, Some(2)), Row(3, 0, Some(2)), Row(4, 0, Some(0))>>

PeerHistoryB ==
    <<Row(0, 1, Some(1)), Row(1, 1, Some(2)), Row(1, 1, Null),
      Row(2, 1, Some(2)), Row(3, 1, Some(1))>>

\* two rows, both on days the benchmark does not have
NoOverlapHistory == <<Row(5, 0, Some(1)), Row(6, 0, Some(2))>>

OneRowHistory == <<Row(0, 0, Some(1))>>

MarketAnswers == {Null, Some(<<>>), Some(GoodMarket)}

StockAnswers ==
    {Null, Some(<<>>), Some(ShortStock), Some(FlatStock), Some(GoodStock)}

QuoteAnswers ==
    {Null,
     Some([currency |-> Some("USD"), marketCap |-> Some(5), shortName |-> Null])}

UsdReport ==
    [financialCurrency |-> Some("USD"), totalRevenue |-> Some(4),
     enterpriseValue |-> Some(6), ebitda |-> Some(3), trailingPE |-> Some(11),
     priceToBook |-> Null, dividendYield |-> Some(13),
     debtToEquity |-> Null, profitMargins |-> Some(15)]

FundamentalsAnswers == {Null, Some(UsdReport)}

FxAnswers == {Null, Some([regularMarketPrice |-> Some(2)])}

\* the target's quoteSummary in getPeers
TechProfile ==
    [assetProfile |-> Some([industry |-> Some("Tech"), sector |-> Some("IT")]),
     marketCap |-> Some(9), financialCurrency |-> Some("USD")]

BankProfile ==
    [assetProfile |-> Some([industry |-> Some("Bank"), sector |-> Null]),
     marketCap |-> Some(9), financialCurrency |-> Null]

NoProfile ==
    [assetProfile |-> Null, marketCap |-> Some(9), financialCurrency |-> Null]

\* a profile that names no industry
NoIndustryProfile ==
    [assetProfile |-> Some([industry |-> Null, sector |-> Some("IT")]),
     marketCap |-> Some(9), financialCurrency |-> Null]

TargetProfiles == {Null, Some(NoProfile), Some(TechProfile)}

\* the answers for the symbols of base 1 during discovery
DiscoveryAnswers ==
    [summary : {Null, Some(NoProfile), Some(NoIndustryProfile),
                Some(TechProfile), Some(BankProfile)},
     quote : QuoteAnswers]

DefaultDiscoveryAnswers == [summary |-> Null, quote |-> Null]

\* the fixed answers for every other symbol in the peer batch
BulkHistory(symbol) ==
    IF TickerBase(symbol) % 2 = 0 THEN Some(PeerHistoryA)
    ELSE Some(PeerHistoryB)

BulkFundamentals(symbol) ==
    LET base == TickerBase(symbol)
    IN  Some([financialCurrency |->
                  IF base % 3 = 0 THEN Some("USD") ELSE Null,
              totalRevenue |-> IF base % 4 = 0 THEN Null ELSE Some(base),
              enterpriseValue |-> Some(base + 1), ebitda |-> Some(2),
              trailingPE |-> Some(11), priceToBook |-> Some(12),
              dividendYield |-> Null, debtToEquity |-> Some(14),
              profitMargins |-> Null])

\* the answers for the symbols of base 1 in the peer batch
PeerAnswers ==
    [data : {Null, Some(OneRowHistory), Some(NoOverlapHistory),
             Some(PeerHistoryA)},
     quote : QuoteAnswers,
     fin : FundamentalsAnswers]

DefaultPeerAnswers == [data |-> Null, quote |-> Null, fin |-> Null]

PeerFetch(symbol, answers) ==
    IF IsFree(symbol) THEN answers
    ELSE [data |-> BulkHistory(symbol), quote |-> BulkQuote(symbol),
          fin |-> BulkFundamentals(symbol)]

\* the directory: industryList after loadExcelData
NumSymbols == 22
Entry(base, industry) ==
    [symbol |-> base, name |-> "", industry |-> industry]

SmallDirectory ==
    <<Entry(0, "Software"), Entry(1, "Software"), Entry(2, "Software"),
      Entry(3, "Software"), Entry(7, "Metals")>>

\* a directory that does not list the target
OtherDirectory == <<Entry(1, "Software"), Entry(2, "Software")>>

LargeDirectory == [i \in 1..(NumSymbols + 1) |-> Entry(i - 1, "Software")]

Directories == {<<>>, SmallDirectory, OtherDirectory, LargeDirectory}

\* what the recommender returns (null: the call throws)
ShortList == <<<<1, "NS">>, <<2, "NS">>, <<1, "NS">>, <<0, "NS">>,
               <<0, "BO">>, <<5, "NS">>, <<3, "NS">>>>

LongList == [i \in 1..NumSymbols |-> <<i, "NS">>]

Recommendations == {Null, Some(<<>>), Some(ShortList), Some(LongList)}

Requests ==
    {[ok |-> FALSE, ticker |-> <<0>>, exchange |-> "NSE"],
     [ok |-> TRUE, ticker |-> <<0>>, exchange |-> "NSE"],
     [ok |-> TRUE, ticker |-> <<0, "NS">>, exchange |-> "NSE"],
     [ok |-> TRUE, ticker |-> <<0>>, exchange |-> "BSE"]}

Worlds == [list : Directories, recommended : Recommendations]

\* the requests and worlds of a run: every world for the plain NSE request
\* and for the rejected one, a few worlds for the other two requests
Scenarios ==
    {sc \in Requests \X Worlds :
        \/ sc[1].ticker = <<0>> /\ sc[1].exchange = "NSE"
        \/ /\ sc[1].exchange = "BSE"
           /\ sc[2].list \in {<<>>, SmallDirectory}
           /\ sc[2].recommended \in {Some(<<>>), Some(ShortList)}
        \/ /\ Len(sc[1].ticker) = 2
           /\ sc[2].list = SmallDirectory}

\* the symbols of base 1 are among the given symbols
FreeAmong(symbols) == \E i \in DOMAIN symbols : IsFree(symbols[i])

-----------------------------------------------------------------------------
(* One run of the handler *)

Init ==
    /\ pc = "start"
    /\ \E sc \in Scenarios :
          /\ req = Some(sc[1])
          /\ env = Some(sc[2])
    /\ marketData = Null
    /\ stockData = Null
    /\ quote = Null
    /\ financials = Null
    /\ usdInr = Null
    /\ sPrices = <<>>
    /\ mPrices = <<>>
    /\ pairDates = <<>>
    /\ metrics = Null
    /\ targetData = Null
    /\ targetSummary = Null
    /\ candidates = <<>>
    /\ peerSummaries = <<>>
    /\ peerQuotes = <<>>
    /\ verified = <<>>
    /\ peerList = <<>>
    /\ peerFetches = <<>>
    /\ branchResults = <<>>
    /\ pending = {}
    /\ finalPeers = <<>>
    /\ searches = <<>>
    /\ nextId = 1
    /\ response = Null

\* api.beta.calculate.input.parse(req.body): a ZodError is caught by the
\* handler's catch like any other error
Parse ==
    /\ pc = "start"
    /\ IF req[1].ok
       THEN /\ pc' = "primary"
            /\ response' = response
       ELSE /\ pc' = "done"
            /\ response' = InternalServerError
    /\ UNCHANGED <<joinVars, req, marketData, stockData, quote, financials, usdInr,
                   sPrices, mPrices, pairDates, metrics, targetData, env,
                   discoveryVars, peerFetches, finalPeers, storeVars>>

\* the handler from the end of the primary await up to its next await, given
\* what the five fetches resolved to
AfterPrimary(md, sd, q, f, fx) ==
    IF NoData(md) \/ NoData(sd)
    THEN /\ response' = FailedToFetch
         /\ pc' = "done"
         /\ UNCHANGED <<sPrices, mPrices, pairDates, metrics, targetData>>
    ELSE LET a == Align(sd[1], DateMapOf(md[1]))
             m == calculateFinancialMetrics(a.s, a.m)
         IN  /\ sPrices' = a.s
             /\ mPrices' = a.m
             /\ pairDates' = a.dates
             /\ metrics' = m
             /\ IF m = Null
                THEN /\ response' = InsufficientDataPoints
                     /\ pc' = "done"
                     /\ targetData' = targetData
                ELSE /\ targetData' =
                            Some(TargetData(
                                FullTicker(req[1].ticker, req[1].exchange),
                                m[1], q, f, ExchangeRate(fx)))
                     /\ pc' = "discover"
                     /\ response' = response

\* the five primary fetches resolve; the handler runs up to its next await
PrimaryBatch ==
    /\ pc = "primary"
    /\ \E md \in MarketAnswers, sd \in StockAnswers, q \in QuoteAnswers,
          f \in FundamentalsAnswers, fx \in FxAnswers :
          /\ marketData' = md
          /\ stockData' = sd
          /\ quote' = q
          /\ financials' = f
          /\ usdInr' = fx
          /\ AfterPrimary(md, sd, q, f, fx)
    /\ UNCHANGED <<joinVars, req, env, discoveryVars, peerFetches, finalPeers, storeVars>>

\* await getPeers(fullTicker, exchangeRate)
Discover ==
    /\ pc = "discover"
    /\ \E summary \in TargetProfiles :
       \E answers \in IF env[1].recommended # Null
                         /\ (FreeAmong(env[1].recommended[1])
                             \/ env[1].list # <<>>)
                      THEN DiscoveryAnswers
                      ELSE {DefaultDiscoveryAnswers} :
          LET g == getPeers(targetData[1].ticker, ExchangeRate(usdInr),
                            summary, env[1].recommended, env[1].list, answers)
          IN  /\ targetSummary' = summary
              /\ candidates' = g.candidates
              /\ peerSummaries' = g.summaries
              /\ peerQuotes' = g.quotes
              /\ verified' = g.verified
              /\ peerList' = g.peers
    /\ pc' = "peers"
    /\ UNCHANGED <<joinVars, req, marketData, stockData, quote, financials, usdInr,
                   sPrices, mPrices, pairDates, metrics, targetData, env,
                   peerFetches, finalPeers, storeVars, response>>

\* the peer batch resolves: peerResults and finalPeers
PeerBatch ==
    /\ pc = "peers"
    /\ \E answers \in IF \E i \in DOMAIN peerList : IsFree(peerList[i].slug)
                      THEN PeerAnswers ELSE {DefaultPeerAnswers} :
          LET fetches == [i \in 1..Len(peerList) |->
                             PeerFetch(peerList[i].slug, answers)]
              dateMap == DateMapOf(marketData[1])
              peerResults ==
                  [i \in 1..Len(peerList) |->
                      PeerResult(peerList[i], fetches[i], dateMap,
                                 ExchangeRate(usdInr))]
          IN  /\ peerFetches' = fetches
              /\ branchResults' = peerResults
              /\ finalPeers' = FinalPeers(peerResults)
    /\ pc' = "store"
    /\ UNCHANGED <<pending, req, marketData, stockData, quote, financials, usdInr,
                   sPrices, mPrices, pairDates, metrics, targetData, env,
                   discoveryVars, storeVars, response>>

\* mutant of createSearch: the record is not kept
createSearchNoWrite(stored, id, search) == stored

\* MemStorage.createSearch: this.searches.set(id, { ...search, id, ... })
createSearch(stored, id, search) == Append(stored, [id |-> id] @@ search)

\* await storage.createSearch({...})
CreateSearch ==
    /\ pc = "store"
    /\ searches' = createSearch(searches, nextId,
                                [ticker |-> targetData[1].ticker,
                                 exchange |-> req[1].exchange,
                                 beta |-> Some(metrics[1].beta),
                                 peers |-> finalPeers])
    /\ nextId' = nextId + 1
    /\ pc' = "respond"
    /\ UNCHANGED <<joinVars, req, marketData, stockData, quote, financials, usdInr,
                   sPrices, mPrices, pairDates, metrics, targetData, env,
                   discoveryVars, peerFetches, finalPeers, response>>

\* res.json({ ...targetData, peers: finalPeers })
Respond ==
    /\ pc = "respond"
    /\ response' = Some([status |-> 200,
                         body |-> JsonBody(targetData[1], finalPeers)])
    /\ pc' = "done"
    /\ UNCHANGED <<joinVars, req, marketData, stockData, quote, financials, usdInr,
                   sPrices, mPrices, pairDates, metrics, targetData, env,
                   discoveryVars, peerFetches, finalPeers, storeVars>>

Next ==
    \/ Parse
    \/ PrimaryBatch
    \/ Discover
    \/ PeerBatch
    \/ CreateSearch
    \/ Respond

Spec == Init /\ [][Next]_vars

-----------------------------------------------------------------------------
(* The same run, one step per fetch: each Promise.all is a batch of branches
   that settle one at a time, in any order, and a join that runs when none
   of them is pending. *)

\* the branches of the primary Promise.all
PrimaryFetches == {<<0, "market">>, <<0, "stock">>, <<0, "quote">>,
                   <<0, "financials">>, <<0, "usdInr">>}

\* the three fetches inside the branch of peer i
FetchesOf(i) == {<<i, "data">>, <<i, "quote">>, <<i, "fin">>}

\* the branches of the outer Promise.all of the peer batch
PeerBranches(n) == {<<i, "branch">> : i \in 1..n}

\* mutant of AllSettled: the continuation does not wait
AllSettledNoWait(batch, inflight) == TRUE

\* await Promise.all(batch): the continuation runs when no member is pending
AllSettled(batch, inflight) == batch \cap inflight = {}

\* what the recommender returns in the runs followed fetch by fetch
PairList == <<<<1, "NS">>, <<2, "NS">>>>

JoinInit ==
    /\ pc = "start"
    /\ req \in {Some(r) : r \in {q \in Requests : q.ticker = <<0>>
                                                  /\ q.exchange = "NSE"}}
    /\ env = Some([list |-> <<>>, recommended |-> Some(PairList)])
    /\ marketData = Null
    /\ stockData = Null
    /\ quote = Null
    /\ financials = Null
    /\ usdInr = Null
    /\ sPrices = <<>>
    /\ mPrices = <<>>
    /\ pairDates = <<>>
    /\ metrics = Null
    /\ targetData = Null
    /\ targetSummary = Null
    /\ candidates = <<>>
    /\ peerSummaries = <<>>
    /\ peerQuotes = <<>>
    /\ verified = <<>>
    /\ peerList = <<>>
    /\ peerFetches = <<>>
    /\ branchResults = <<>>
    /\ pending = {}
    /\ finalPeers = <<>>
    /\ searches = <<>>
    /\ nextId = 1
    /\ response = Null

\* input.parse and the synchronous start of the five primary fetches
StartPrimary ==
    /\ pc = "start"
    /\ IF req[1].ok
       THEN /\ pc' = "primary"
            /\ pending' = PrimaryFetches
            /\ response' = response
       ELSE /\ pc' = "done"
            /\ pending' = pending
            /\ response' = InternalServerError
    /\ UNCHANGED <<branchResults, req, marketData, stockData, quote,
                   financials, usdInr, sPrices, mPrices, pairDates, metrics,
                   targetData, env, discoveryVars, peerFetches, finalPeers,
                   storeVars>>

\* one primary fetch settles: its value is the element of the Promise.all
\* result that belongs to it
SettlePrimary ==
    /\ pc = "primary"
    /\ \E fetch \in pending \cap PrimaryFetches :
          /\ pending' = pending \ {fetch}
          /\ marketData' \in IF fetch[2] = "market"
                              THEN {Null, Some(GoodMarket)}
                              ELSE {marketData}
          /\ stockData' \in IF fetch[2] = "stock"
                             THEN {Null, Some(GoodStock)}
                             ELSE {stockData}
          /\ quote' \in IF fetch[2] = "quote" THEN QuoteAnswers ELSE {quote}
          /\ financials' \in IF fetch[2] = "financials"
                              THEN FundamentalsAnswers
                              ELSE {financials}
          /\ usdInr' \in IF fetch[2] = "usdInr" THEN FxAnswers ELSE {usdInr}
    /\ UNCHANGED <<branchResults, req, pc, sPrices, mPrices, pairDates,
                   metrics, targetData, env, discoveryVars, peerFetches,
                   finalPeers, storeVars, response>>

\* the primary await returns: the handler runs up to its next await
JoinPrimary ==
    /\ pc = "primary"
    /\ AllSettled(PrimaryFetches, pending)
    /\ AfterPrimary(marketData, stockData, quote, financials, usdInr)
    /\ UNCHANGED <<joinVars, req, marketData, stockData, quote, financials,
                   usdInr, env, discoveryVars, peerFetches, finalPeers,
                   storeVars>>

\* peerList.map(async (peer) => ...): every branch starts its three fetches
StartPeers ==
    /\ pc = "peers"
    /\ pending' = PeerBranches(Len(peerList))
                      \cup UNION {FetchesOf(i) : i \in 1..Len(peerList)}
    /\ peerFetches' = [i \in 1..Len(peerList) |-> DefaultPeerAnswers]
    /\ branchResults' = [i \in 1..Len(peerList) |-> Null]
    /\ pc' = "peerWait"
    /\ UNCHANGED <<req, marketData, stockData, quote, financials, usdInr,
                   sPrices, mPrices, pairDates, metrics, targetData, env,
                   discoveryVars, finalPeers, storeVars, response>>

\* one fetch of one peer's branch settles
SettlePeer ==
    /\ pc = "peerWait"
    /\ \E i \in DOMAIN peerList :
       \E fetch \in pending \cap FetchesOf(i) :
       \E answers \in IF IsFree(peerList[i].slug)
                       THEN PeerAnswers ELSE {DefaultPeerAnswers} :
          LET kind == fetch[2]
              got == PeerFetch(peerList[i].slug, answers)
          IN  /\ pending' = pending \ {fetch}
              /\ peerFetches' =
                     [peerFetches EXCEPT ![i] =
                         [data |-> IF kind = "data" THEN got.data ELSE @.data,
                          quote |-> IF kind = "quote" THEN got.quote
                                    ELSE @.quote,
                          fin |-> IF kind = "fin" THEN got.fin ELSE @.fin]]
    /\ UNCHANGED <<branchResults, req, pc, marketData, stockData, quote,
                   financials, usdInr, sPrices, mPrices, pairDates, metrics,
                   targetData, env, discoveryVars, finalPeers, storeVars,
                   response>>

\* the inner await of peer i returns: the branch aligns, computes and returns
\* its entry (or null)
PeerBranch ==
    /\ pc = "peerWait"
    /\ \E i \in DOMAIN peerList :
          /\ <<i, "branch">> \in pending
          /\ AllSettled(FetchesOf(i), pending)
          /\ branchResults' =
                 [branchResults EXCEPT ![i] =
                     PeerResult(peerList[i], peerFetches[i],
                                DateMapOf(marketData[1]),
                                ExchangeRate(usdInr))]
          /\ pending' = pending \ {<<i, "branch">>}
    /\ UNCHANGED <<req, pc, marketData, stockData, quote, financials, usdInr,
                   sPrices, mPrices, pairDates, metrics, targetData, env,
                   discoveryVars, peerFetches, finalPeers, storeVars,
                   response>>

\* the outer await of the peer batch returns: finalPeers
JoinPeers ==
    /\ pc = "peerWait"
    /\ AllSettled(PeerBranches(Len(peerList)), pending)
    /\ finalPeers' = FinalPeers(branchResults)
    /\ pc' = "store"
    /\ UNCHANGED <<joinVars, req, marketData, stockData, quote, financials,
                   usdInr, sPrices, mPrices, pairDates, metrics, targetData,
                   env, discoveryVars, peerFetches, storeVars, response>>

JoinNext ==
    \/ StartPrimary
    \/ SettlePrimary
    \/ JoinPrimary
    \/ Discover
    \/ StartPeers
    \/ SettlePeer
    \/ PeerBranch
    \/ JoinPeers
    \/ CreateSearch
    \/ Respond

SpecJoin == JoinInit /\ [][JoinNext]_vars

\* every fetch in flight eventually settles (yahoo-finance2 resolves or
\* rejects each call)
FetchesSettle == WF_vars(SettlePrimary) /\ WF_vars(SettlePeer)

Positions == {"start", "primary", "discover", "peers", "peerWait", "store",
              "respond", "done"}

\* the handler can leave its position: it is not waiting for a batch.  This
\* is the disjunction of the guards of StartPrimary, JoinPrimary, Discover,
\* StartPeers, JoinPeers, CreateSearch and Respond, which are the steps that
\* change pc.
MoveReady ==
    \/ pc \in {"start", "discover", "peers", "store", "respond"}
    \/ pc = "primary" /\ PrimaryFetches \cap pending = {}
    \/ pc = "peerWait" /\ PeerBranches(Len(peerList)) \cap pending = {}

\* the guard of PeerBranch for peer i
BranchReady(i) ==
    /\ pc = "peerWait"
    /\ <<i, "branch">> \in pending
    /\ FetchesOf(i) \cap pending = {}

\* the event loop runs every continuation that is ready; getPeers and
\* createSearch are awaited calls that return.  The handler's steps are
\* named by what they do to pc and pending, so that whether one is enabled
\* is read from its guard.
HandlerRuns ==
    /\ WF_pc(MoveReady /\ pc' \in Positions)
    /\ WF_pending(\E i \in DOMAIN peerList :
                      /\ BranchReady(i)
                      /\ pending' = pending \ {<<i, "branch">>})

SpecJoinLive == SpecJoin /\ FetchesSettle /\ HandlerRuns

-----------------------------------------------------------------------------
(* Properties of a run *)

Succeeded == response # Null /\ response[1].status = 200

MetricFieldsOf(r) ==
    {r.beta, r.alpha, r.correlation, r.rSquared, r.volatility}

AllPresent(r) == \A x \in MetricFieldsOf(r) : x # Null

AllAbsent(r) == \A x \in MetricFieldsOf(r) : x = Null

\* C6: in the emitted result the five statistical fields of the target, and
\* of every peer, are all present or all absent (null).
C6_MetricsAllOrNothing ==
    Succeeded =>
        LET body == response[1].body
        IN  /\ AllPresent(body.target) \/ AllAbsent(body.target)
            /\ \A i \in DOMAIN body.peers :
                  AllPresent(body.peers[i]) \/ AllAbsent(body.peers[i])

\* C6 witness: a result is emitted that holds a peer with all five fields
\* and a peer with none of them.
C6_Witness ==
    /\ Succeeded
    /\ AllPresent(response[1].body.target)
    /\ \E i \in DOMAIN response[1].body.peers :
          AllPresent(response[1].body.peers[i])
    /\ \E i \in DOMAIN response[1].body.peers :
          AllAbsent(response[1].body.peers[i])

\* the four monetary fields of a snapshot carry the factor of their class
SnapshotOk(snap, q, f, rate) ==
    LET pcur == GoverningPriceCurrency(q)
        rcur == GoverningReportCurrency(q, f)
    IN  /\ MonetaryOk(snap.marketCap, Field(q, "marketCap"), pcur, rate)
        /\ MonetaryOk(snap.enterpriseValue, Field(f, "enterpriseValue"),
                      pcur, rate)
        /\ MonetaryOk(snap.revenue, Field(f, "totalRevenue"), rcur, rate)
        /\ MonetaryOk(snap.ebitda, Field(f, "ebitda"), rcur, rate)

\* C7: in the target's snapshot, in every peer's snapshot and in the market
\* cap that discovery computes for a verified candidate, marketCap and
\* enterpriseValue carry the factor of the trading currency, revenue and
\* ebitda the factor of the reporting currency, and no field the factor of
\* the other class.
C7_OneFactorPerClass ==
    LET rate == ExchangeRate(usdInr)
    IN  /\ targetData # Null =>
              SnapshotOk(targetData[1], quote, financials, rate)
        /\ \A i \in DOMAIN finalPeers :
              \E j \in DOMAIN peerFetches :
                  /\ peerList[j].slug = finalPeers[i].ticker
                  /\ SnapshotOk(finalPeers[i], peerFetches[j].quote,
                                peerFetches[j].fin, rate)
        /\ \A i \in DOMAIN verified :
              verified[i] # Null =>
                  MonetaryOk(verified[i][1].marketCap,
                             peerSummaries[i][1].marketCap,
                             GoverningPriceCurrency(peerQuotes[i]), rate)

\* the discovery part of C7 alone fails, the two snapshots hold
C7_SnapshotsOnly ==
    LET rate == ExchangeRate(usdInr)
    IN  /\ targetData # Null =>
              SnapshotOk(targetData[1], quote, financials, rate)
        /\ \A i \in DOMAIN finalPeers :
              \E j \in DOMAIN peerFetches :
                  /\ peerList[j].slug = finalPeers[i].ticker
                  /\ SnapshotOk(finalPeers[i], peerFetches[j].quote,
                                peerFetches[j].fin, rate)

\* C10: the peer list of a successful result has at most 10 entries (and so
\* have the list that discovery returns and the list that is stored).
C10_AtMostTenPeers ==
    /\ Len(peerList) <= 10
    /\ Len(finalPeers) <= 10
    /\ Succeeded => Len(response[1].body.peers) \in 0..10

\* C10 witness: more than 10 candidates pass verification and the result
\* holds 10 peers.
C10_Witness ==
    /\ Succeeded
    /\ Len(response[1].body.peers) = 10
    /\ Len(NonNull(verified)) > 10

\* the symbols of a list of peers
SymbolsOf(peers, field) == [i \in DOMAIN peers |-> peers[i][field]]

\* the target's symbol was offered as a candidate
TargetOffered ==
    \E i \in DOMAIN candidates : candidates[i] = targetData[1].ticker

\* C11: the target's symbol is in neither the list that discovery returns
\* nor the peers of the result, whichever the exchange and whether the
\* recommender or the directory offered it.
C11_TargetNotAPeer ==
    targetData # Null =>
        /\ \A i \in DOMAIN peerList : peerList[i].slug # targetData[1].ticker
        /\ \A i \in DOMAIN finalPeers :
              finalPeers[i].ticker # targetData[1].ticker
        /\ Succeeded =>
              \A i \in DOMAIN response[1].body.peers :
                  response[1].body.peers[i].ticker # response[1].body.target.ticker

\* C11 witness: a BSE target whose own symbol the recommender offered, its
\* industry listed in the directory, and a result with peers.
C11_Witness ==
    /\ Succeeded
    /\ req[1].exchange = "BSE"
    /\ TargetOffered
    /\ DirectoryIndustry(env[1].list, TickerBase(targetData[1].ticker)) # Null
    /\ Len(response[1].body.peers) > 0

\* no symbol occurs twice
NoDuplicates(symbols) ==
    \A i, j \in DOMAIN symbols : i # j => symbols[i] # symbols[j]

\* C12: no two peers of the list that discovery returns, or of the result,
\* have the same symbol.
C12_NoDuplicatePeers ==
    /\ NoDuplicates(SymbolsOf(peerList, "slug"))
    /\ NoDuplicates(SymbolsOf(finalPeers, "ticker"))

\* with a directory entry for the target the candidates are de-duplicated
C12_NoDuplicatesWithDirectoryEntry ==
    (targetData # Null
        /\ DirectoryIndustry(env[1].list, TickerBase(targetData[1].ticker))
               # Null) =>
        /\ NoDuplicates(SymbolsOf(peerList, "slug"))
        /\ NoDuplicates(SymbolsOf(finalPeers, "ticker"))

\* a sequence of entries is in descending order of marketCap
DescendingByMarketCap(peers) ==
    \A i, j \in DOMAIN peers : i < j => peers[i].marketCap >= peers[j].marketCap

\* C13: the peers of a successful result are in descending order of the
\* marketCap their entries report.
C13_PeersByMarketCapDescending ==
    /\ DescendingByMarketCap(finalPeers)
    /\ Succeeded => DescendingByMarketCap(response[1].body.peers)

\* C13 witness: a result with peers of different market caps whose order is
\* not the order in which discovery returned them.
C13_Witness ==
    /\ Succeeded
    /\ Len(response[1].body.peers) >= 3
    /\ \E i, j \in DOMAIN response[1].body.peers :
          response[1].body.peers[i].marketCap
              > response[1].body.peers[j].marketCap
    /\ SymbolsOf(response[1].body.peers, "ticker") # SymbolsOf(peerList, "slug")
    /\ Len(response[1].body.peers) = Len(peerList)

\* a primary history that did not come or came empty
Unavailable(history) == history = Null \/ history = Some(<<>>)

\* the primary batch of a valid request has resolved
PrimaryResolved == req[1].ok /\ pc \notin {"start", "primary"}

\* nothing after the primary batch has happened
NothingFurther ==
    /\ pc = "done"
    /\ targetData = Null
    /\ candidates = <<>>
    /\ peerList = <<>>
    /\ peerFetches = <<>>
    /\ branchResults = <<>>
    /\ pending = {}
    /\ finalPeers = <<>>
    /\ searches = <<>>

StatusIs(status) == response # Null /\ response[1].status = status

\* C14: when the target's or the benchmark's history is unavailable or empty
\* the run answers 404 with a message, and has aligned nothing, computed no
\* metrics, discovered no peer, written no record and built no target result;
\* 404 is answered in no other case.
C14_NoDataIsNotFound ==
    /\ (PrimaryResolved /\ (Unavailable(marketData) \/ Unavailable(stockData)))
           => /\ StatusIs(404)
              /\ DOMAIN response[1].body = {"message"}
              /\ NothingFurther
              /\ sPrices = <<>> /\ mPrices = <<>> /\ metrics = Null
    /\ StatusIs(404) =>
           PrimaryResolved /\ (Unavailable(marketData) \/ Unavailable(stockData))

\* C14 witness: the benchmark came, the target's history came empty (not
\* null), and the answer is 404.
C14_Witness ==
    /\ StatusIs(404)
    /\ marketData = Some(GoodMarket)
    /\ stockData = Some(<<>>)

\* the aligned prices cannot give metrics: fewer than two returns, or a
\* return vector without dispersion
NoRegression ==
    \/ Len(sPrices) < 3
    \/ IsZero(VarianceOf(sPrices))
    \/ IsZero(VarianceOf(mPrices))

\* both histories came and the aligned prices give no metrics
InsufficientPoints ==
    /\ PrimaryResolved
    /\ ~Unavailable(marketData)
    /\ ~Unavailable(stockData)
    /\ NoRegression

\* C15 as stated: absent metrics are answered with the not-found status of
\* the missing-history case, without discovery and without a record.
C15_AsStated ==
    InsufficientPoints => StatusIs(404) /\ NothingFurther

\* C15: absent metrics of the target are answered with status 400 and a
\* message, without discovery and without a record; 400 is answered in no
\* other case.
C15_InsufficientPointsIsBadRequest ==
    /\ InsufficientPoints
           => /\ StatusIs(400)
              /\ DOMAIN response[1].body = {"message"}
              /\ NothingFurther
              /\ metrics = Null
    /\ StatusIs(400) => InsufficientPoints

\* C15 witness: enough aligned prices but a target without dispersion, and
\* the answer is 400.
C15_Witness ==
    /\ StatusIs(400)
    /\ Len(sPrices) >= 3
    /\ IsZero(VarianceOf(sPrices))
    /\ ~IsZero(VarianceOf(mPrices))

\* C16: a request that fails validation is answered with a client error
\* (4xx) that carries the detail of the fields, and no fetch is issued.
C16_ValidationIsClientError ==
    (~req[1].ok /\ response # Null) =>
        /\ response[1].status \in 400..499
        /\ "errors" \in DOMAIN response[1].body
        /\ marketData = Null /\ stockData = Null /\ quote = Null

\* the part of C16 that the handler keeps: no fetch for a rejected request
C16_NoFetchWhenRejected ==
    (~req[1].ok /\ response # Null) =>
        /\ pc = "done"
        /\ marketData = Null /\ stockData = Null /\ quote = Null
        /\ financials = Null /\ usdInr = Null /\ candidates = <<>>

\* the entries of the final list for the peer at position i of peerList
EntriesOf(i) ==
    {j \in DOMAIN finalPeers : finalPeers[j].ticker = peerList[i].slug}

\* the prices of a peer's history that align with the benchmark give no
\* metrics: fewer than two returns or a return vector without dispersion
PeerNoRegression(history) ==
    LET a == Align(history, DateMapOf(marketData[1]))
    IN  \/ Len(a.s) < 3
        \/ IsZero(VarianceOf(a.s))
        \/ IsZero(VarianceOf(a.m))

\* C17 as stated: a peer whose history came but gives no metrics, a history
\* with too few points included, has an entry with the five fields null.
C17_AsStated ==
    \A i \in DOMAIN peerFetches :
        (peerFetches[i].data # Null /\ PeerNoRegression(peerFetches[i].data[1]))
            => /\ EntriesOf(i) # {}
               /\ \A j \in EntriesOf(i) : AllAbsent(finalPeers[j])

\* the emitted peers are the final list, entry by entry, with the same
\* statistical fields present
EmittedAsFinal ==
    /\ Len(response[1].body.peers) = Len(finalPeers)
    /\ \A j \in DOMAIN finalPeers :
          /\ response[1].body.peers[j].ticker = finalPeers[j].ticker
          /\ AllAbsent(response[1].body.peers[j]) = AllAbsent(finalPeers[j])
          /\ AllPresent(response[1].body.peers[j]) = AllPresent(finalPeers[j])

\* C17: a peer whose history holds at least two rows has an entry in the
\* result, with the five statistical fields null when its aligned prices give
\* no metrics; a peer whose history holds fewer than two rows has no entry.
\* (The final list is looked at when the peer batch has resolved; the
\* emitted result repeats it.)
C17_AbsentMetricsKeepPeer ==
    /\ pc = "store" =>
          \A i \in DOMAIN peerFetches :
              IF peerFetches[i].data # Null /\ Len(peerFetches[i].data[1]) >= 2
              THEN /\ EntriesOf(i) # {}
                   /\ \A j \in EntriesOf(i) :
                         IF PeerNoRegression(peerFetches[i].data[1])
                         THEN AllAbsent(finalPeers[j])
                         ELSE AllPresent(finalPeers[j])
              ELSE EntriesOf(i) = {}
    /\ Succeeded => EmittedAsFinal

\* C17 witness: a peer whose history has no date of the benchmark is in the
\* emitted result with the five fields null.
C17_Witness ==
    /\ Succeeded
    /\ \E i \in DOMAIN peerFetches :
          /\ peerFetches[i].data = Some(NoOverlapHistory)
          /\ \E j \in DOMAIN response[1].body.peers :
                /\ response[1].body.peers[j].ticker = peerList[i].slug
                /\ AllAbsent(response[1].body.peers[j])

\* the positions of the peers whose history fetch failed
FailedPeers == {i \in DOMAIN peerFetches : peerFetches[i].data = Null}

\* the final list of the run in which the failed fetches had answered history
FinalPeersHad(history) ==
    LET dateMap == DateMapOf(marketData[1])
        fetches == [i \in DOMAIN peerFetches |->
                       IF i \in FailedPeers
                       THEN [peerFetches[i] EXCEPT !.data = Some(history)]
                       ELSE peerFetches[i]]
    IN  FinalPeers([i \in DOMAIN peerFetches |->
                       PeerResult(peerList[i], fetches[i], dateMap,
                                  ExchangeRate(usdInr))])

\* a list of entries without those of the peers whose fetch failed
WithoutFailed(entries) ==
    LET Other(e) == \A i \in FailedPeers : peerList[i].slug # e.ticker
    IN  SelectSeq(entries, Other)

\* C18: a peer whose history fetch failed has no entry in the result; the
\* other entries, and their order, are those of the run in which that fetch
\* had succeeded, and the target's fields are those computed before the peers.
C18_FailedPeerOmittedOnly ==
    FailedPeers # {} =>
        /\ \A i \in FailedPeers : EntriesOf(i) = {}
        /\ pc = "store" =>
              \A history \in {PeerHistoryA, NoOverlapHistory} :
                  finalPeers = WithoutFailed(FinalPeersHad(history))
        /\ Succeeded =>
              /\ Len(response[1].body.peers) = Len(finalPeers)
              /\ response[1].body.target.ticker = targetData[1].ticker
              /\ response[1].body.target.marketCap = targetData[1].marketCap
              /\ response[1].body.target.beta = Some(metrics[1].beta)

\* C18 witness: one verified peer's history fetch failed and the result holds
\* the other peers.
C18_Witness ==
    /\ Succeeded
    /\ FailedPeers # {}
    /\ Len(peerList) >= 3
    /\ Len(response[1].body.peers) = Len(peerList) - Cardinality(FailedPeers)
    /\ Len(response[1].body.peers) >= 2

\* the directory has no entry for the target and the recommender returned
\* an empty list
NoMatchNoRecommendation ==
    /\ \A i \in DOMAIN env[1].list :
          env[1].list[i].symbol # TickerBase(req[1].ticker)
    /\ env[1].recommended = Some(<<>>)

\* C19: without a directory entry for the target and with an empty list from
\* the recommender, discovery returns no peer and the run succeeds with the
\* target's own metrics and an empty peers sequence.
C19_NoCandidatesStillSucceeds ==
    (NoMatchNoRecommendation
        /\ pc \in {"peers", "store", "respond", "done"}
        /\ targetData # Null) =>
        /\ candidates = <<>>
        /\ peerList = <<>>
        /\ finalPeers = <<>>
        /\ pc = "done" =>
              /\ Succeeded
              /\ response[1].body.peers = <<>>
              /\ AllPresent(response[1].body.target)
              /\ response[1].body.target.beta = Some(metrics[1].beta)

\* C19 witness: a directory that holds other companies only, an empty list
\* from the recommender, a target with an industry profile, and a result.
C19_Witness ==
    /\ Succeeded
    /\ NoMatchNoRecommendation
    /\ env[1].list = OtherDirectory
    /\ response[1].body.peers = <<>>
    /\ AllPresent(response[1].body.target)

\* both primary histories came and their aligned prices give metrics
PrimaryComputable ==
    /\ PrimaryResolved
    /\ ~Unavailable(marketData)
    /\ ~Unavailable(stockData)
    /\ ~NoRegression

\* every conversion of the run used the given rate
ConvertedAt(rate) ==
    /\ targetData # Null =>
          SnapshotOk(targetData[1], quote, financials, rate)
    /\ \A i \in DOMAIN finalPeers :
          \E j \in DOMAIN peerFetches :
              /\ peerList[j].slug = finalPeers[i].ticker
              /\ SnapshotOk(finalPeers[i], peerFetches[j].quote,
                            peerFetches[j].fin, rate)
    /\ \A i \in DOMAIN verified :
          verified[i] # Null =>
              LET raw == OrElse(peerSummaries[i][1].marketCap, 0)
              IN  /\ verified[i][1].marketCap \in {raw, raw * rate}
                  /\ GoverningPriceCurrency(peerQuotes[i]) = "USD" =>
                        verified[i][1].marketCap = raw * rate

\* C20: whatever the target's quote, fundamentals and FX fetches answer, a
\* run whose primary histories give metrics does not fail and ends in a
\* successful result; when the FX rate did not come every conversion of the
\* run uses 83.
C20_AuxiliaryFailuresRecovered ==
    PrimaryComputable =>
        /\ response # Null => Succeeded
        /\ pc = "done" => Succeeded
        /\ usdInr = Null => ConvertedAt(83)

\* C20 witness: the quote, the fundamentals and the FX rate all failed, the
\* run succeeded and a peer quoted in USD was converted at 83.
C20_Witness ==
    /\ Succeeded
    /\ quote = Null
    /\ financials = Null
    /\ usdInr = Null
    /\ \E i \in DOMAIN finalPeers :
       \E j \in DOMAIN peerFetches :
          /\ peerList[j].slug = finalPeers[i].ticker
          /\ GoverningPriceCurrency(peerFetches[j].quote) = "USD"
          /\ finalPeers[i].marketCap = 83 * peerFetches[j].quote[1].marketCap[1]
          /\ finalPeers[i].marketCap > 0

\* the records agree with the outcome of the run
RecordsAgree ==
    /\ Len(searches) <= 1
    /\ Succeeded => Len(searches) = 1 /\ searches[1].id = 1 /\ nextId = 2
    /\ (response # Null /\ ~Succeeded) => searches = <<>> /\ nextId = 1
    /\ searches # <<>> =>
          /\ searches[1].ticker = targetData[1].ticker
          /\ searches[1].peers = finalPeers

\* the step that emits the result finds the record written
RecordBeforeResult ==
    (response = Null /\ response' # Null /\ response'[1].status = 200) =>
        Len(searches) = 1 /\ searches' = searches

\* C21: a run that succeeds has written exactly one record, and wrote it
\* before the step that emits the result; a run that fails (rejected input,
\* missing history, insufficient points) has written none.
C21_OneRecordPerSuccess == [][RecordBeforeResult]_vars /\ []RecordsAgree

\* C21 witness: a result with peers has been emitted and the one record
\* holds the target's symbol and those peers.
C21_Witness ==
    /\ Succeeded
    /\ Len(searches) = 1
    /\ searches[1].id = 1
    /\ searches[1].ticker = response[1].body.target.ticker
    /\ Len(searches[1].peers) >= 1

\* getPeers got as far as fetching the candidates' profiles
DiscoveryFetched ==
    /\ pc \in {"peers", "store", "respond", "done"}
    /\ targetSummary # Null
    /\ targetSummary[1].assetProfile # Null
    /\ env[1].recommended # Null

\* the directory has an entry for the target
TargetListed ==
    \E i \in DOMAIN env[1].list :
        env[1].list[i].symbol = TickerBase(targetData[1].ticker)

\* the gathered symbols in discovery order: the recommender's, then the
\* directory's other entries of the target's industry
Gathered ==
    LET base == TickerBase(targetData[1].ticker)
        industry == DirectoryIndustry(env[1].list, base)
        Peer(e) == industry # Null /\ e.industry = industry[1] /\ e.symbol # base
        fromDirectory == SelectSeq(env[1].list, Peer)
    IN  env[1].recommended[1] \o
            [i \in DOMAIN fromDirectory |-> <<fromDirectory[i].symbol, "NS">>]

RECURSIVE FirstOccurrences(_, _)
\* the symbols of a list in order, each at its first occurrence only
FirstOccurrences(symbols, seen) ==
    IF symbols = <<>> THEN <<>>
    ELSE IF Head(symbols) \in seen THEN FirstOccurrences(Tail(symbols), seen)
    ELSE <<Head(symbols)>>
             \o FirstOccurrences(Tail(symbols), seen \cup {Head(symbols)})

FirstN(symbols, n) == SubSeq(symbols, 1, IF Len(symbols) < n THEN Len(symbols) ELSE n)

\* C22: the profiles fetched are those of the first 20 symbols of the
\* gathered list after de-duplication and removal of the target; the target
\* holds none of the 20 places and nothing is fetched past them.
C22_FirstTwentyOfCleanList ==
    /\ Len(candidates) <= 20
    /\ Len(peerSummaries) = Len(candidates)
    /\ DiscoveryFetched =>
          LET NotTarget(symbol) == symbol # targetData[1].ticker
          IN  /\ candidates =
                    FirstN(FirstOccurrences(SelectSeq(Gathered, NotTarget), {}),
                           20)
              /\ \A i \in DOMAIN candidates :
                    candidates[i] # targetData[1].ticker

\* what holds of C22: at most 20 profiles are fetched, those of the first 20
\* gathered symbols, de-duplicated when the directory lists the target; the
\* target and, without a directory entry, repeated symbols keep their places
C22_FirstTwentyGathered ==
    /\ Len(candidates) <= 20
    /\ Len(peerSummaries) = Len(candidates)
    /\ IF DiscoveryFetched
       THEN candidates =
                FirstN(IF TargetListed THEN FirstOccurrences(Gathered, {})
                       ELSE Gathered, 20)
       ELSE candidates = <<>>

\* the industry a profile gives (absent when there is no profile or none
\* in it)
ProfileIndustry(s) ==
    IF s = Null \/ s[1].assetProfile = Null THEN Null
    ELSE s[1].assetProfile[1].industry

\* the industry of the first directory entry for the base symbol
ListedIndustry(base) ==
    LET at == {i \in DOMAIN env[1].list : env[1].list[i].symbol = base}
    IN  IF at = {} THEN Null
        ELSE Some(env[1].list[CHOOSE i \in at : \A j \in at : i <= j].industry)

\* the candidate's profile and the target's name the same industry
PrimaryAgrees(i) ==
    /\ ProfileIndustry(peerSummaries[i]) # Null
    /\ ProfileIndustry(peerSummaries[i]) = ProfileIndustry(targetSummary)

\* the directory names the same industry for the candidate and the target
DirectoryAgrees(i) ==
    /\ ListedIndustry(TickerBase(candidates[i])) # Null
    /\ ListedIndustry(TickerBase(candidates[i]))
           = ListedIndustry(TickerBase(targetData[1].ticker))

\* C23: a capped candidate passes verification iff its profile came, it is
\* not the target, and its profile's industry is the target's or its
\* directory industry is the target's.
C23_VerifiedIffEitherSourceAgrees ==
    /\ Len(verified) = Len(candidates)
    /\ \A i \in DOMAIN candidates :
          verified[i] # Null <=>
              /\ peerSummaries[i] # Null
              /\ peerSummaries[i][1].assetProfile # Null
              /\ candidates[i] # targetData[1].ticker
              /\ PrimaryAgrees(i) \/ DirectoryAgrees(i)

\* C23 witness: of the capped candidates one passed on its profile alone, one
\* on the directory alone, and one that neither source puts in the target's
\* industry was rejected.
C23_Witness ==
    /\ \E i \in DOMAIN candidates :
          verified[i] # Null /\ PrimaryAgrees(i) /\ ~DirectoryAgrees(i)
    /\ \E i \in DOMAIN candidates :
          verified[i] # Null /\ ~PrimaryAgrees(i) /\ DirectoryAgrees(i)
    /\ \E i \in DOMAIN candidates :
          /\ verified[i] = Null
          /\ peerSummaries[i] # Null
          /\ ProfileIndustry(peerSummaries[i]) # Null
          /\ candidates[i] # targetData[1].ticker
          /\ ~PrimaryAgrees(i) /\ ~DirectoryAgrees(i)

\* candidate i got as far as its quote fetch
Passes(i) ==
    /\ peerSummaries[i] # Null
    /\ peerSummaries[i][1].assetProfile # Null
    /\ candidates[i] # targetData[1].ticker
    /\ PrimaryAgrees(i) \/ DirectoryAgrees(i)

ProfileFailed(i) == peerSummaries[i] = Null

QuoteFailed(i) == Passes(i) /\ peerQuotes[i] = Null

\* the verified candidates in ranking order, before the cut to 10, without
\* those of the symbol whose answers vary
RankedOthers(verifiedPeers) ==
    LET Other(p) == ~IsFree(p.slug)
    IN  SelectSeq(SortByMarketCapDesc(NonNull(verifiedPeers)), Other)

\* discovery with other answers for the symbol whose answers vary
DiscoveryHad(answers) ==
    getPeers(targetData[1].ticker, ExchangeRate(usdInr), targetSummary,
             env[1].recommended, env[1].list, answers)

\* discovery had the symbol whose answers vary never been gathered
DiscoveryWithoutFree ==
    LET NotFree(symbol) == ~IsFree(symbol)
        NotFreeEntry(e) == e.symbol # 1
    IN  getPeers(targetData[1].ticker, ExchangeRate(usdInr), targetSummary,
                 Some(SelectSeq(env[1].recommended[1], NotFree)),
                 SelectSeq(env[1].list, NotFreeEntry),
                 DefaultDiscoveryAnswers)

\* a fetch of the symbol whose answers vary failed
FreeFetchFailed ==
    \E i \in DOMAIN candidates :
        IsFree(candidates[i]) /\ (ProfileFailed(i) \/ QuoteFailed(i))

\* C24 as stated: a candidate whose profile or quote fetch failed is removed,
\* and the peers returned are those of a discovery that never gathered it.
C24_AsStated ==
    (pc = "peers" /\ DiscoveryFetched) =>
        /\ \A i \in DOMAIN candidates :
              (ProfileFailed(i) \/ QuoteFailed(i)) => verified[i] = Null
        /\ FreeFetchFailed => peerList = DiscoveryWithoutFree.peers

\* C24: a candidate whose profile fetch failed is removed; a candidate whose
\* quote fetch failed is kept; either way the other candidates hold the same
\* places among the capped 20, the others that pass and their ranking are
\* those of a discovery in which that candidate's fetches answered anything
\* else, and discovery returns the first 10 of the ranking.
C24_CandidateFailureIsLocal ==
    (pc = "peers" /\ DiscoveryFetched) =>
        /\ \A i \in DOMAIN candidates :
              /\ ProfileFailed(i) => verified[i] = Null
              /\ QuoteFailed(i) => verified[i] # Null
        /\ FreeFetchFailed =>
              \A answers \in DiscoveryAnswers :
                  /\ DiscoveryHad(answers).candidates = candidates
                  /\ RankedOthers(DiscoveryHad(answers).verified)
                         = RankedOthers(verified)
        /\ Len(peerList) = Min(10, Len(NonNull(verified)))

\* C24 witness: one candidate's profile fetch failed, other candidates passed
\* and were returned.
C24_Witness ==
    /\ pc = "peers"
    /\ DiscoveryFetched
    /\ \E i \in DOMAIN candidates : IsFree(candidates[i]) /\ ProfileFailed(i)
    /\ Len(candidates) = 20
    /\ Len(peerList) >= 2

\* a second case: the quote fetch of a candidate that passed failed and the
\* candidate was returned
C24_QuoteFailureKept ==
    /\ pc = "peers"
    /\ \E i \in DOMAIN candidates :
          /\ IsFree(candidates[i]) /\ QuoteFailed(i)
          /\ \E j \in DOMAIN peerList : peerList[j].slug = candidates[i]

\* the symbol has an entry in the final list
InFinal(symbol) == \E j \in DOMAIN finalPeers : finalPeers[j].ticker = symbol

\* the marketCap of the symbol's entry in the final list
FinalCapOf(symbol) ==
    finalPeers[CHOOSE j \in DOMAIN finalPeers :
                   finalPeers[j].ticker = symbol].marketCap

\* the symbols of the final list whose entries report marketCap cap, in order
FinalTies(cap) ==
    LET At(e) == e.marketCap = cap
    IN  SymbolsOf(SelectSeq(finalPeers, At), "ticker")

\* the symbols of a list that have a final entry of marketCap cap, in order
TiesAmong(symbols, cap) ==
    LET At(symbol) == InFinal(symbol) /\ FinalCapOf(symbol) = cap
    IN  SelectSeq(symbols, At)

FinalCaps == {finalPeers[j].marketCap : j \in DOMAIN finalPeers}

\* a sequence is the beginning of another
IsPrefix(short, long) ==
    Len(short) <= Len(long) /\ short = SubSeq(long, 1, Len(short))

SurvivorsInDiscoveryOrder == SelectSeq(SymbolsOf(peerList, "slug"), InFinal)

\* C26: (refuted) the final list holds the surviving peers in the relative
\* order in which discovery returned them, so the final sort changes nothing.
C26_FinalOrderIsDiscoveryOrder ==
    pc = "store" =>
        SymbolsOf(finalPeers, "ticker") = SurvivorsInDiscoveryOrder

\* what only a continuation after a join writes
aggregateVars ==
    <<sPrices, mPrices, pairDates, metrics, targetData, discoveryVars,
      finalPeers, searches, nextId, response>>

\* the slots the primary fetches settle into
primarySlots == <<marketData, stockData, quote, financials, usdInr>>

\* a branch settles in this step
Settles(branch) == branch \in pending /\ branch \notin pending'

\* a step in which a member of some batch settles writes nothing but the
\* slot of that member
BranchWritesOwnSlot ==
    (\E branch \in pending : Settles(branch)) =>
        /\ UNCHANGED aggregateVars
        /\ \E branch \in pending :
              /\ pending' = pending \ {branch}
              /\ IF branch \in PrimaryFetches
                 THEN /\ UNCHANGED <<peerFetches, branchResults>>
                      /\ branch[2] # "market" => UNCHANGED marketData
                      /\ branch[2] # "stock" => UNCHANGED stockData
                      /\ branch[2] # "quote" => UNCHANGED quote
                      /\ branch[2] # "financials" => UNCHANGED financials
                      /\ branch[2] # "usdInr" => UNCHANGED usdInr
                 ELSE /\ UNCHANGED primarySlots
                      /\ \A j \in DOMAIN peerList :
                            j # branch[1] =>
                               /\ peerFetches'[j] = peerFetches[j]
                               /\ branchResults'[j] = branchResults[j]
                      /\ IF branch[2] = "branch"
                         THEN UNCHANGED peerFetches
                         ELSE UNCHANGED branchResults

\* a continuation runs only when every member of the batch it awaits has
\* settled
AggregatesAfterJoin ==
    /\ aggregateVars' # aggregateVars =>
          pending = {} \/ (pc = "start" /\ ~req[1].ok)
    /\ \A i \in DOMAIN branchResults :
          (i \in DOMAIN branchResults' /\ branchResults'[i] # branchResults[i])
              => FetchesOf(i) \cap pending = {}

\* at every position after a join the batch before it is settled
SettledBehind ==
    /\ pc \in {"discover", "peers", "peerWait", "store", "respond"}
          => PrimaryFetches \cap pending = {}
    /\ pc \in {"store", "respond"} \/ (pc = "done" /\ StatusIs(200))
          => pending = {}
    /\ response # Null => PrimaryFetches \cap pending = {} \/ ~req[1].ok

\* C27: within a run a fetch branch writes nothing but its own slot of its
\* batch, and alignment and the target snapshot, each peer's alignment, and
\* the final sort, audit write and response happen only after every member
\* of the batch they wait for has settled.
C27_AggregationAfterJoin ==
    /\ [][BranchWritesOwnSlot /\ AggregatesAfterJoin]_vars
    /\ []SettledBehind

\* C27 witness: one peer's branch has returned its entry while a fetch of
\* another peer is still in flight, and a run ends with a result.
C27_Witness ==
    /\ pc = "peerWait"
    /\ \E i, j \in DOMAIN peerList :
          /\ i # j
          /\ <<i, "branch">> \notin pending
          /\ branchResults[i] # Null
          /\ FetchesOf(j) \cap pending # {}
          /\ FetchesOf(j) \cap pending # FetchesOf(j)

\* a response, once sent, is the response of the run
ResponseKept == response # Null => response' = response

\* C28: provided every fetch settles, every started run eventually sends a
\* response, a result or a structured error, whichever fetches fail, and it
\* sends no second one.
C28_ExactlyOneResponse ==
    /\ <>(response # Null /\ pc = "done")
    /\ [][ResponseKept]_vars

\* C28 witness: a run has answered with a result although the target's
\* quote, the exchange-rate quote and a peer's history fetch failed.
C28_Witness ==
    /\ pc = "done"
    /\ StatusIs(200)
    /\ quote = Null
    /\ usdInr = Null
    /\ \E i \in DOMAIN peerFetches : peerFetches[i].data = Null

\* the four monetary fields of a snapshot and the answer each one is read from
MonetarySources(q, f) ==
    [marketCap |-> Field(q, "marketCap"),
     revenue |-> Field(f, "totalRevenue"),
     enterpriseValue |-> Field(f, "enterpriseValue"),
     ebitda |-> Field(f, "ebitda")]

\* no monetary field of the snapshot is 0 where its source has no value
NoZeroForMissing(snapshot, q, f) ==
    \A name \in DOMAIN MonetarySources(q, f) :
        MonetarySources(q, f)[name] = Null => snapshot[name] # 0

\* C29: (refuted) a snapshot field whose source value is unavailable is not
\* reported as a number: marketCap, revenue, enterpriseValue and ebitda of the
\* target and of every peer are never 0 because their source was missing.
C29_MissingSourceNeverZero ==
    pc = "store" =>
        /\ NoZeroForMissing(targetData[1], quote, financials)
        /\ \A i \in DOMAIN branchResults :
              branchResults[i] # Null =>
                  NoZeroForMissing(branchResults[i][1], peerFetches[i].quote,
                                   peerFetches[i].fin)

\* what does hold: the ratio fields, which the code passes through, are
\* absent exactly when their source is
C29_RatiosPassThrough ==
    pc = "store" =>
        /\ targetData[1].peRatio = Field(financials, "trailingPE")
        /\ targetData[1].pbRatio = Field(financials, "priceToBook")
        /\ targetData[1].dividendYield = Field(financials, "dividendYield")
        /\ targetData[1].debtToEquity = Field(financials, "debtToEquity")
        /\ targetData[1].profitMargin = Field(financials, "profitMargins")
        /\ financials = Null => targetData[1].evRevenueMultiple = Null

\* the history has a row of date d whose close is price
HasClose(data, d, price) ==
    \E i \in DOMAIN data : DateKey(data[i].t) = d /\ data[i].close = Some(price)

\* C30: for every pair of input histories the two price sequences handed to
\* calculateFinancialMetrics have the same length, and element k of the one
\* and element k of the other are closes of one and the same calendar date,
\* so the length test of the regression never fails because of alignment.
C30_ParallelSequences ==
    pc = "alignDone" =>
        /\ Len(sPrices) = Len(mPrices)
        /\ DOMAIN pairDates = DOMAIN sPrices
        /\ \A k \in DOMAIN sPrices :
              /\ HasClose(stockData[1], pairDates[k], sPrices[k])
              /\ HasClose(marketData[1], pairDates[k], mPrices[k])
        /\ Len(sPrices) >= 2 => ~BadLengths(sPrices, mPrices)

\* C30 witness: histories of different lengths have been aligned to two
\* pairs of different dates, the two closes of a pair being different.
C30_Witness ==
    /\ pc = "alignDone"
    /\ Len(stockData[1]) # Len(marketData[1])
    /\ Len(sPrices) = 2
    /\ pairDates[1] # pairDates[2]
    /\ sPrices[1] # mPrices[1]
    /\ mPrices[1] # mPrices[2]

=============================================================================
